---------------------------- MODULE Spec2Model ----------------------------
(***************************************************************************)
(* A model of novel-agent: the conversation session (src/agent.ts), the    *)
(* two transport adapters (src/providers/claude.ts, deepseek.ts), the      *)
(* provider base class (base.ts) and the provider factory (factory.ts).    *)
(*                                                                         *)
(* Text is modelled as a sequence of tokens.  "SP" stands for one          *)
(* white-space character (blank, tab, carriage return), "NL" for the line  *)
(* feed; every other token stands for a run of non-blank characters.       *)
(***************************************************************************)
EXTENDS Integers, Sequences, FiniteSets, TLC

(***************************************************************************)
(* Bounds of the model.                                                    *)
(***************************************************************************)
\* number of NovelAgent.chat calls issued in one behaviour
MaxChats == 3

(***************************************************************************)
(* Text helpers.                                                           *)
(***************************************************************************)
RECURSIVE TrimLeft(_)
TrimLeft(s) ==
  IF s # <<>> /\ Head(s) \in {"SP", "NL"} THEN TrimLeft(Tail(s)) ELSE s

RECURSIVE TrimRight(_)
TrimRight(s) ==
  IF s # <<>> /\ s[Len(s)] \in {"SP", "NL"}
  THEN TrimRight(SubSeq(s, 1, Len(s) - 1))
  ELSE s

\* String.prototype.trim
Trim(s) == TrimRight(TrimLeft(s))

(***************************************************************************)
(* The conversation session, src/agent.ts.                                 *)
(***************************************************************************)
VARIABLES
  conversationHistory, \* NovelAgent.conversationHistory
  inflight,            \* provider.chat promises that are still pending
  nextId,              \* number of chat calls issued so far
  outcome,             \* how the last chat call that completed ended
  okCalls,             \* chat calls completed since the history was last empty and idle
  serial,              \* every chat call since then ran alone and succeeded
  exited,              \* process.exit was called
  lastOp               \* the last step of the session: "none", "clear" or "other"

agentVars ==
  <<conversationHistory, inflight, nextId, outcome, okCalls, serial, exited>>

sessionVars == <<agentVars, lastOp>>

\* NovelAgent.systemPrompt, the fixed text built by buildSystemPrompt
systemPrompt == <<"novel-agent-prompt">>

\* contents a backend may answer with, and errors provider.chat may reject with
Replies == {<<"r1">>, <<"r2">>}
Errors == {"e1", "e2"}

\* lines the user may type
InputLines ==
  { <<>>, <<"SP">>, <<"/quit">>, <<"/exit">>, <<"/clear">>, <<"SP", "/clear">>,
    <<"/history">>, <<"/info">>, <<"m1">>, <<"m2", "SP">> }

Msg(r, c) == [role |-> r, content |-> c]

NoOutcome == [kind |-> "none", id |-> 0]

AgentInit ==
  /\ conversationHistory = <<>>
  /\ inflight = {}
  /\ nextId = 0
  /\ outcome = NoOutcome
  /\ okCalls = <<>>
  /\ serial = TRUE
  /\ exited = FALSE
  /\ lastOp = "none"

\* the history after chat's first statement
PushUserMutant(h, userMessage) == <<Msg("user", userMessage)>> \o h
PushUser(h, userMessage) == Append(h, Msg("user", userMessage))

\* the history after chat's second push
PushAssistantMutant(h, content) ==
  IF h = <<>> THEN <<Msg("assistant", content)>>
  ELSE [h EXCEPT ![Len(h)] = Msg("assistant", content)]
PushAssistant(h, content) == Append(h, Msg("assistant", content))

\* what chat's catch block hands to its caller
RethrowMutant(error) == <<"Error", error>>
Rethrow(error) == error

\* the arguments of this.provider.chat
ProviderArgsMutant(h) == [messages |-> <<h[Len(h)]>>, system |-> systemPrompt]
ProviderArgs(h) == [messages |-> h, system |-> systemPrompt]

\* NovelAgent.chat up to the await: push the user message, call provider.chat
ChatCall(userMessage) ==
  /\ nextId < MaxChats
  /\ conversationHistory' = PushUser(conversationHistory, userMessage)
  /\ inflight' =
       { [c EXCEPT !.alone = FALSE] : c \in inflight } \cup
       { [ id |-> nextId + 1,
           text |-> userMessage,
           before |-> conversationHistory,
           sent |-> ProviderArgs(conversationHistory'),
           alone |-> inflight = {} ] }
  /\ nextId' = nextId + 1
  /\ serial' = (serial /\ inflight = {})
  /\ UNCHANGED <<outcome, okCalls, exited>>

\* NovelAgent.clearHistory
ClearHistoryMutant ==
  /\ conversationHistory' = SubSeq(conversationHistory, 1, Len(conversationHistory) - 1)
  /\ inflight' = { [c EXCEPT !.alone = FALSE] : c \in inflight }
  /\ okCalls' = <<>>
  /\ serial' = (inflight = {})
  /\ UNCHANGED <<nextId, outcome, exited>>
ClearHistory ==
  /\ conversationHistory' = <<>>
  /\ inflight' = { [c EXCEPT !.alone = FALSE] : c \in inflight }
  /\ okCalls' = <<>>
  /\ serial' = (inflight = {})
  /\ UNCHANGED <<nextId, outcome, exited>>

\* NovelAgent.getHistory
getHistory == conversationHistory

\* the line handler of startInteractiveSession
LineMutant(line) ==
  LET input == Trim(line) IN
  /\ ~exited
  /\ IF input = <<"/quit">> \/ input = <<"/exit">>
     THEN /\ exited' = TRUE
          /\ UNCHANGED <<conversationHistory, inflight, nextId, outcome, okCalls, serial>>
     ELSE IF input = <<"/clear">>
     THEN ClearHistory
     ELSE IF input = <<"/history">> \/ input = <<>>
     THEN UNCHANGED agentVars
     ELSE ChatCall(input)
  /\ lastOp' = IF line \in {<<"/clear">>, <<"SP", "/clear">>} THEN "clear" ELSE "other"
Line(line) ==
  LET input == Trim(line) IN
  /\ ~exited
  /\ IF input = <<"/quit">> \/ input = <<"/exit">>
     THEN /\ exited' = TRUE
          /\ UNCHANGED <<conversationHistory, inflight, nextId, outcome, okCalls, serial>>
     ELSE IF input = <<"/clear">>
     THEN ClearHistory
     ELSE IF input = <<"/history">> \/ input = <<"/info">> \/ input = <<>>
     THEN UNCHANGED agentVars
     ELSE ChatCall(input)
  /\ lastOp' = IF line \in {<<"/clear">>, <<"SP", "/clear">>} THEN "clear" ELSE "other"

\* NovelAgent.chat after the await, provider.chat fulfilled
ChatResolve(c, content) ==
  /\ ~exited
  /\ c \in inflight
  /\ conversationHistory' = PushAssistant(conversationHistory, content)
  /\ inflight' = inflight \ {c}
  /\ outcome' = [kind |-> "returned", id |-> c.id, alone |-> c.alone,
                 provider |-> content, value |-> content]
  /\ okCalls' = Append(okCalls, [text |-> c.text, content |-> content])
  /\ serial' = (serial /\ c.alone)
  /\ lastOp' = "other"
  /\ UNCHANGED <<nextId, exited>>

\* NovelAgent.chat after the await, provider.chat rejected
ChatRejectMutant(c, error) ==
  /\ ~exited
  /\ c \in inflight
  /\ conversationHistory' = c.before
  /\ inflight' = inflight \ {c}
  /\ outcome' = [kind |-> "thrown", id |-> c.id, alone |-> c.alone,
                 provider |-> error, value |-> Rethrow(error)]
  /\ serial' = FALSE
  /\ lastOp' = "other"
  /\ UNCHANGED <<nextId, okCalls, exited>>
ChatReject(c, error) ==
  /\ ~exited
  /\ c \in inflight
  /\ inflight' = inflight \ {c}
  /\ outcome' = [kind |-> "thrown", id |-> c.id, alone |-> c.alone,
                 provider |-> error, value |-> Rethrow(error)]
  /\ serial' = FALSE
  /\ lastOp' = "other"
  /\ UNCHANGED <<conversationHistory, nextId, okCalls, exited>>

(***************************************************************************)
(* DeepSeekProvider.streamChat, src/providers/deepseek.ts.                 *)
(*                                                                         *)
(* The response body is a sequence of tokens.  The prefix 'data: ' is the  *)
(* token "data:" followed by one "SP"; the payload tokens are              *)
(*   "{a}", "{b}"  a chunk {"choices":[{"delta":{"content":"a"}}]}         *)
(*   "{role}"      a chunk whose delta carries no content                  *)
(*   "{bad"        text that JSON.parse rejects                            *)
(*   "[DONE]"      the sentinel of the terminator line                     *)
(***************************************************************************)
\* number of lines of a response body
MaxLines == 3

VARIABLES
  stream,     \* the whole response body the backend sends
  pos,        \* number of tokens reader.read() has delivered
  buffer,     \* the local variable buffer
  lines,      \* the lines the for loop has still to visit
  yielded,    \* the fragments handed to the consumer
  sPc,        \* "off", "read" (at reader.read), "for" (in the for loop),
              \* "yield" (suspended at yield), "done", "failed", "abandoned"
  midCut,     \* some read ended inside a line
  readFailed, \* reader.read() rejected
  sCalls,     \* number of streamChat calls made on the adapter
  left        \* what the generator of an abandoned call still held

streamVars ==
  <<stream, pos, buffer, lines, yielded, sPc, midCut, readFailed, sCalls, left>>

\* number of streamChat calls on one adapter
MaxStreams == 2

NoLeft == [buffer |-> FALSE, lines |-> FALSE, fragments |-> 0]

\* the lines a backend may send
LineKinds ==
  { <<"data:", "SP", "{a}">>,
    <<"data:", "SP", "{b}">>,
    <<"data:", "SP", "[DONE]">>,
    <<"data:", "SP", "{bad">>,
    <<"data:", "SP", "{role}">>,
    <<"data:", "SP", "{a}", "SP">>,
    <<":ping">>,
    <<>> }

RECURSIVE Bodies(_)
\* the bodies of at most n lines, each line but the last one ended by "NL"
Bodies(n) ==
  IF n = 0 THEN {<<>>}
  ELSE LineKinds \cup { l \o <<"NL">> \o b : l \in LineKinds, b \in Bodies(n - 1) }

\* every body, with and without a final "NL"
StreamInputs == Bodies(MaxLines) \cup { b \o <<"NL">> : b \in Bodies(MaxLines) }

RECURSIVE Split(_)
\* String.prototype.split('\n')
Split(s) ==
  IF s = <<>> THEN << <<>> >>
  ELSE LET rest == Split(Tail(s)) IN
       IF Head(s) = "NL" THEN << <<>> >> \o rest
       ELSE << <<Head(s)>> \o Head(rest) >> \o Tail(rest)

\* lines.pop() || '' : what stays in the buffer after a read
PopMutant(parts) == <<>>
Pop(parts) == parts[Len(parts)]

\* the array after lines.pop()
Popped(parts) == SubSeq(parts, 1, Len(parts) - 1)

\* trimmed.startsWith('data: ')
StartsWithData(t) == Len(t) >= 2 /\ t[1] = "data:" /\ t[2] = "SP"

\* JSON.parse(payload) followed by json.choices[0]?.delta?.content
ParseDelta(payload) ==
  LET text == Trim(payload) IN
  IF text = <<"{a}">> THEN [kind |-> "delta", content |-> <<"a">>]
  ELSE IF text = <<"{b}">> THEN [kind |-> "delta", content |-> <<"b">>]
  ELSE IF text = <<"{role}">> THEN [kind |-> "nodelta"]
  ELSE [kind |-> "throws"]

\* the catch block around the parse of one line
CatchParseMutant(r) == r
CatchParse(r) == IF r.kind = "throws" THEN [kind |-> "nodelta"] ELSE r

\* the body of the for loop for one line
LineStep(line) ==
  LET trimmed == Trim(line) IN
  IF trimmed = <<>> \/ trimmed = <<"data:", "SP", "[DONE]">> THEN [kind |-> "nodelta"]
  ELSE IF ~StartsWithData(trimmed) THEN [kind |-> "nodelta"]
  ELSE CatchParse(ParseDelta(SubSeq(trimmed, 3, Len(trimmed))))

StreamOff ==
  /\ stream = <<>>
  /\ pos = 0
  /\ buffer = <<>>
  /\ lines = <<>>
  /\ yielded = <<>>
  /\ sPc = "off"
  /\ midCut = FALSE
  /\ readFailed = FALSE
  /\ sCalls = 0
  /\ left = NoLeft

\* streamChat up to the while loop, the backend answered with status 200
StreamInit ==
  /\ stream \in StreamInputs
  /\ pos = 0
  /\ buffer = <<>>
  /\ lines = <<>>
  /\ yielded = <<>>
  /\ sPc = "read"
  /\ midCut = FALSE
  /\ readFailed = FALSE
  /\ sCalls = 1
  /\ left = NoLeft

\* reader.read() delivers the next k tokens
Read(k) ==
  /\ sPc = "read"
  /\ pos + k <= Len(stream)
  /\ LET parts == Split(buffer \o SubSeq(stream, pos + 1, pos + k)) IN
       /\ buffer' = Pop(parts)
       /\ lines' = Popped(parts)
  /\ pos' = pos + k
  /\ midCut' = (midCut \/ (buffer' # <<>> /\ pos' < Len(stream)))
  /\ sPc' = "for"
  /\ UNCHANGED <<stream, yielded, readFailed, sCalls, left>>

\* reader.read() reports done: break
ReadDone ==
  /\ sPc = "read"
  /\ pos = Len(stream)
  /\ sPc' = "done"
  /\ UNCHANGED <<stream, pos, buffer, lines, yielded, midCut, readFailed, sCalls, left>>

\* reader.read() rejects: the outer catch throws
ReadFail ==
  /\ sPc = "read"
  /\ sPc' = "failed"
  /\ readFailed' = TRUE
  /\ UNCHANGED <<stream, pos, buffer, lines, yielded, midCut, sCalls, left>>

\* one iteration of the for loop
ForLine ==
  /\ sPc = "for"
  /\ lines # <<>>
  /\ LET r == LineStep(Head(lines)) IN
       /\ yielded' = IF r.kind = "delta" /\ r.content # <<>>
                     THEN Append(yielded, r.content) ELSE yielded
       /\ sPc' = IF r.kind = "throws" THEN "failed"
                 ELSE IF yielded' # yielded THEN "yield" ELSE "for"
  /\ lines' = Tail(lines)
  /\ UNCHANGED <<stream, pos, buffer, midCut, readFailed, sCalls, left>>

\* the consumer asks for the next fragment: the generator goes on after yield
Resume ==
  /\ sPc = "yield"
  /\ sPc' = "for"
  /\ UNCHANGED <<stream, pos, buffer, lines, yielded, midCut, readFailed, sCalls, left>>

\* the consumer stops iterating: the generator returns at its yield
Abandon ==
  /\ sPc = "yield"
  /\ sPc' = "abandoned"
  /\ left' = [buffer |-> buffer # <<>>, lines |-> lines # <<>>,
              fragments |-> Len(yielded)]
  /\ UNCHANGED <<stream, pos, buffer, lines, yielded, midCut, readFailed, sCalls>>

\* the bodies a backend may send to a later call
LaterInputs == Bodies(1) \cup { b \o <<"NL">> : b \in Bodies(1) }

\* let buffer = '' : the buffer of a new call
NewBufferMutant(old) == old
NewBuffer(old) == <<>>

\* streamChat is called again on the adapter, up to the while loop
StreamAgain(body) ==
  /\ sPc = "abandoned"
  /\ sCalls < MaxStreams
  /\ stream' = body
  /\ pos' = 0
  /\ buffer' = NewBuffer(buffer)
  /\ lines' = <<>>
  /\ yielded' = <<>>
  /\ sPc' = "read"
  /\ midCut' = FALSE
  /\ sCalls' = sCalls + 1
  /\ UNCHANGED <<readFailed, left>>

\* the for loop is over: back to reader.read()
ForEndMutant ==
  /\ sPc = "for"
  /\ sPc' = "read"
  /\ lines' = <<>>
  /\ UNCHANGED <<stream, pos, buffer, yielded, midCut, readFailed, sCalls, left>>
ForEnd ==
  /\ sPc = "for"
  /\ lines = <<>>
  /\ sPc' = "read"
  /\ UNCHANGED <<stream, pos, buffer, lines, yielded, midCut, readFailed, sCalls, left>>

(***************************************************************************)
(* Provider configuration, src/providers/base.ts.                          *)
(*                                                                         *)
(* An optional value is None (undefined) or Some(v).  The temperature is   *)
(* counted in tenths.                                                      *)
(***************************************************************************)
None == <<>>
Some(v) == <<v>>

\* config.maxTokens || 4096
DefaultMaxTokens == 4096
\* config.temperature || 0.7, in tenths
DefaultTemperature == 7

\* x || d for an optional text
OrText(x, d) == IF x = None \/ x[1] = <<>> THEN d ELSE x[1]
\* x || d for an optional number
OrNumber(x, d) == IF x = None \/ x[1] = 0 THEN d ELSE x[1]

\* getDefaultModel of the two adapters
getDefaultModel(kind) ==
  IF kind = "claude" THEN <<"claude-sonnet-4-5-20250929">> ELSE <<"deepseek-chat">>

\* getProviderName of the two adapters
getProviderName(kind) ==
  IF kind = "claude" THEN "Claude" ELSE "DeepSeek"

\* the constructor of ModelProvider, followed by the constructor of the adapter
NewProvider(kind, config) ==
  [ kind |-> kind,
    apiKey |-> config.apiKey,
    model |-> OrText(config.model, getDefaultModel(kind)),
    maxTokens |-> OrNumber(config.maxTokens, DefaultMaxTokens),
    temperature |-> OrNumber(config.temperature, DefaultTemperature),
    baseURL |-> IF kind = "deepseek"
                THEN Some(OrText(config.baseURL, <<"https://api.deepseek.com/v1">>))
                ELSE config.baseURL ]

\* ModelProvider.getConfig
getConfig(p) ==
  [ provider |-> getProviderName(p.kind),
    model |-> p.model,
    maxTokens |-> p.maxTokens,
    temperature |-> p.temperature ]

(***************************************************************************)
(* The provider factory, src/providers/factory.ts.                         *)
(***************************************************************************)
VARIABLES
  fType,    \* the identifier handed to the factory
  fConfig,  \* the ModelConfig handed to the factory
  fResult,  \* None, or how createProvider ended
  fMeta     \* None, or what the factory reports about the identifier

factoryVars == <<fType, fConfig, fResult, fMeta>>

\* identifiers a caller may try
Candidates == {"claude", "deepseek", "made-up-backend", "Claude", "openai", ""}

\* configurations a caller may supply
Configs ==
  [ apiKey : {<<"key">>},
    model : {None, Some(<<>>), Some(<<"m">>)},
    maxTokens : {None, Some(0), Some(100)},
    temperature : {None, Some(0), Some(10)},
    baseURL : {None, Some(<<"url">>)} ]

\* ProviderFactory.getSupportedProviders
getSupportedProviders == <<"claude", "deepseek">>

\* ProviderFactory.isSupported
isSupported(type) ==
  \E i \in DOMAIN getSupportedProviders : getSupportedProviders[i] = type

\* ProviderFactory.createProvider
createProviderMutant(type, config) ==
  IF type = "deepseek"
  THEN [kind |-> "instance", provider |-> NewProvider("deepseek", config)]
  ELSE [kind |-> "instance", provider |-> NewProvider("claude", config)]
createProvider(type, config) ==
  IF type = "claude"
  THEN [kind |-> "instance", provider |-> NewProvider("claude", config)]
  ELSE IF type = "deepseek"
  THEN [kind |-> "instance", provider |-> NewProvider("deepseek", config)]
  ELSE [kind |-> "error", error |-> <<"unsupported provider", type>>]

\* the configuration getDefaultModel constructs its provider with
DummyConfig ==
  [apiKey |-> <<"dummy">>, model |-> None, maxTokens |-> None,
   temperature |-> None, baseURL |-> None]

\* ProviderFactory.getDefaultModel, for a supported identifier
factoryGetDefaultModel(type) ==
  getDefaultModel(createProvider(type, DummyConfig).provider.kind)

\* ProviderFactory.getProviderInfo
getProviderInfoMutant ==
  [ claude |-> [name |-> "Claude", defaultModel |-> <<"claude-sonnet-4-5-20250929">>,
                description |-> "Anthropic Claude"],
    deepseek |-> [name |-> "DeepSeek", defaultModel |-> <<"deepseek-coder">>,
                  description |-> "DeepSeek"] ]
getProviderInfo ==
  [ claude |-> [name |-> "Claude", defaultModel |-> <<"claude-sonnet-4-5-20250929">>,
                description |-> "Anthropic Claude"],
    deepseek |-> [name |-> "DeepSeek", defaultModel |-> <<"deepseek-chat">>,
                  description |-> "DeepSeek"] ]

FactoryOff ==
  /\ fType = ""
  /\ fConfig = None
  /\ fResult = None
  /\ fMeta = None

FactoryInit ==
  /\ fType \in Candidates
  /\ fConfig \in Configs
  /\ fResult = None
  /\ fMeta = None

\* a caller checks the identifier and then constructs the provider
CreateProvider ==
  /\ fResult = None
  /\ fResult' = Some([supported |-> isSupported(fType),
                      created |-> createProvider(fType, fConfig)])
  /\ UNCHANGED <<fType, fConfig, fMeta>>

\* a caller asks the factory about the identifier
Describe ==
  /\ fMeta = None
  /\ fMeta' = Some([default |-> IF isSupported(fType)
                                THEN Some(factoryGetDefaultModel(fType)) ELSE None,
                    info |-> IF fType \in DOMAIN getProviderInfo
                             THEN Some(getProviderInfo[fType]) ELSE None])
  /\ UNCHANGED <<fType, fConfig, fResult>>

(***************************************************************************)
(* Request building of the two adapters, claude.ts and deepseek.ts.        *)
(***************************************************************************)
\* length of a history handed to an adapter
MaxHist == 3

VARIABLES
  reqHistory,  \* the messages argument
  reqSystem,   \* the systemPrompt argument, optional
  request      \* None, or the request the adapter sent last

requestVars == <<reqHistory, reqSystem, request>>

Roles == {"user", "assistant", "system"}
Contents == {<<"x">>, <<"y">>}
Messages == [role : Roles, content : Contents]

RECURSIVE SeqsUpTo(_, _)
SeqsUpTo(S, n) ==
  IF n = 0 THEN {<<>>}
  ELSE LET shorter == SeqsUpTo(S, n - 1) IN
       shorter \cup { Append(h, m) : h \in shorter, m \in S }

Histories == SeqsUpTo(Messages, MaxHist)
SystemPrompts == {None, Some(<<>>), Some(<<"be", "SP", "kind">>)}

\* the adapters of the request-building runs
theClaude == NewProvider("claude", [apiKey |-> <<"key">>, model |-> None,
               maxTokens |-> None, temperature |-> None, baseURL |-> None])
theDeepSeek == NewProvider("deepseek", [apiKey |-> <<"key">>, model |-> None,
               maxTokens |-> None, temperature |-> None, baseURL |-> None])

\* the filter predicate of ClaudeProvider.convertMessages
KeepForClaudeMutant(msg) == msg.role = "user"
KeepForClaude(msg) == msg.role # "system"

\* ClaudeProvider.convertMessages
ClaudeConvertMessages(messages) ==
  LET kept == SelectSeq(messages, KeepForClaude) IN
  [ i \in DOMAIN kept |-> [role |-> kept[i].role, content |-> kept[i].content] ]

\* the argument of client.messages.create in ClaudeProvider.chat and streamChat
ClaudeRequest(p, messages, sys, streaming) ==
  [ backend |-> "claude",
    model |-> p.model,
    max_tokens |-> p.maxTokens,
    temperature |-> p.temperature,
    system |-> sys,
    messages |-> ClaudeConvertMessages(messages),
    stream |-> streaming ]

\* if (systemPrompt) of DeepSeekProvider.convertMessages
HasSystemPrompt(sys) == sys # None /\ sys[1] # <<>>

\* DeepSeekProvider.convertMessages
DeepSeekConvertMessages(messages, sys) ==
  (IF HasSystemPrompt(sys) THEN <<[role |-> "system", content |-> sys[1]]>> ELSE <<>>)
  \o [ i \in DOMAIN messages |->
         [role |-> messages[i].role, content |-> messages[i].content] ]

\* the body of the fetch in DeepSeekProvider.chat and streamChat
DeepSeekRequest(p, messages, sys, streaming) ==
  [ backend |-> "deepseek",
    url |-> p.baseURL[1] \o <<"/chat/completions">>,
    model |-> p.model,
    messages |-> DeepSeekConvertMessages(messages, sys),
    max_tokens |-> p.maxTokens,
    temperature |-> p.temperature,
    stream |-> streaming ]

RequestOff ==
  /\ reqHistory = <<>>
  /\ reqSystem = None
  /\ request = None

RequestInit ==
  /\ reqHistory \in Histories
  /\ reqSystem \in SystemPrompts
  /\ request = None

\* ClaudeProvider.chat up to the remote call
ClaudeChat ==
  /\ request' = Some(ClaudeRequest(theClaude, reqHistory, reqSystem, FALSE))
  /\ UNCHANGED <<reqHistory, reqSystem>>

\* ClaudeProvider.streamChat up to the remote call
ClaudeStreamChat ==
  /\ request' = Some(ClaudeRequest(theClaude, reqHistory, reqSystem, TRUE))
  /\ UNCHANGED <<reqHistory, reqSystem>>

\* DeepSeekProvider.chat up to the fetch
DeepSeekChat ==
  /\ request' = Some(DeepSeekRequest(theDeepSeek, reqHistory, reqSystem, FALSE))
  /\ UNCHANGED <<reqHistory, reqSystem>>

\* DeepSeekProvider.streamChat up to the fetch
DeepSeekStreamChat ==
  /\ request' = Some(DeepSeekRequest(theDeepSeek, reqHistory, reqSystem, TRUE))
  /\ UNCHANGED <<reqHistory, reqSystem>>

(***************************************************************************)
(* ClaudeProvider.streamChat, src/providers/claude.ts.                     *)
(*                                                                         *)
(* The backend sends typed events.  Every event is written with a delta    *)
(* field; the code reads it only for events of type content_block_delta.   *)
(***************************************************************************)
\* number of events of a Claude stream
MaxEvents == 3

VARIABLES
  cEvents,   \* the events the backend sends
  cPos,      \* number of events the for await loop has taken
  cYielded,  \* the fragments handed to the consumer
  cPc,       \* "off", "create" (at messages.create), "iter", "yield" (suspended
             \* at yield), "done", "failed", "abandoned"
  cFailed,   \* the connection failed
  cCalls     \* number of streamChat calls made on the adapter

claudeVars == <<cEvents, cPos, cYielded, cPc, cFailed, cCalls>>

Event(t, dt, text) == [type |-> t, delta |-> [type |-> dt, text |-> text]]

\* the events a backend may send
ClaudeEvents ==
  { Event("content_block_delta", "text_delta", <<"a">>),
    Event("content_block_delta", "text_delta", <<"b">>),
    Event("content_block_delta", "text_delta", <<>>),
    Event("content_block_delta", "input_json_delta", <<"{">>),
    Event("message_start", "none", <<>>),
    Event("message_stop", "none", <<>>) }

\* event.type === 'content_block_delta' && event.delta.type === 'text_delta'
IsTextDeltaMutant(event) == event.type = "content_block_delta"
IsTextDelta(event) ==
  event.type = "content_block_delta" /\ event.delta.type = "text_delta"

ClaudeStreamOff ==
  /\ cEvents = <<>>
  /\ cPos = 0
  /\ cYielded = <<>>
  /\ cPc = "off"
  /\ cFailed = FALSE
  /\ cCalls = 0

\* streamChat is entered: messages.create is awaited
ClaudeStreamInit ==
  /\ cEvents \in SeqsUpTo(ClaudeEvents, MaxEvents)
  /\ cPos = 0
  /\ cYielded = <<>>
  /\ cPc = "create"
  /\ cFailed = FALSE
  /\ cCalls = 1

\* messages.create resolves with the stream
ClaudeCreate ==
  /\ cPc = "create"
  /\ cPc' = "iter"
  /\ UNCHANGED <<cEvents, cPos, cYielded, cFailed, cCalls>>

\* messages.create or the iteration of the stream rejects: the catch throws
ClaudeStreamFailMutant ==
  /\ cPc \in {"create", "iter"}
  /\ cPc' = "done"
  /\ cFailed' = TRUE
  /\ UNCHANGED <<cEvents, cPos, cYielded, cCalls>>
ClaudeStreamFail ==
  /\ cPc \in {"create", "iter"}
  /\ cPc' = "failed"
  /\ cFailed' = TRUE
  /\ UNCHANGED <<cEvents, cPos, cYielded, cCalls>>

\* one iteration of the for await loop
ClaudeEvent ==
  /\ cPc = "iter"
  /\ cPos < Len(cEvents)
  /\ LET event == cEvents[cPos + 1] IN
       cYielded' = IF IsTextDelta(event)
                   THEN Append(cYielded, event.delta.text) ELSE cYielded
  /\ cPos' = cPos + 1
  /\ cPc' = IF cYielded' # cYielded THEN "yield" ELSE "iter"
  /\ UNCHANGED <<cEvents, cFailed, cCalls>>

\* the consumer asks for the next fragment
ClaudeResume ==
  /\ cPc = "yield"
  /\ cPc' = "iter"
  /\ UNCHANGED <<cEvents, cPos, cYielded, cFailed, cCalls>>

\* the consumer stops iterating: the generator returns at its yield
ClaudeAbandon ==
  /\ cPc = "yield"
  /\ cPc' = "abandoned"
  /\ UNCHANGED <<cEvents, cPos, cYielded, cFailed, cCalls>>

\* streamChat is called again on the adapter: a new stream from messages.create
ClaudeStreamAgain(events) ==
  /\ cPc = "abandoned"
  /\ cCalls < MaxStreams
  /\ cEvents' = events
  /\ cPos' = 0
  /\ cYielded' = <<>>
  /\ cPc' = "create"
  /\ cCalls' = cCalls + 1
  /\ UNCHANGED cFailed

\* the stream is exhausted: the generator returns
ClaudeEnd ==
  /\ cPc = "iter"
  /\ cPos = Len(cEvents)
  /\ cPc' = "done"
  /\ UNCHANGED <<cEvents, cPos, cYielded, cFailed, cCalls>>

(***************************************************************************)
(* One adapter and its callers: chat, streamChat up to the first answer    *)
(* of the backend, validateApiKey, and NovelAgent.chat on top of chat.     *)
(*                                                                         *)
(* aKind "base" is an adapter that inherits streamChat from ModelProvider. *)
(* A remote request is one call of fetch or of client.messages.create.     *)
(* An error message is a sequence of tokens; a status is its decimal text. *)
(***************************************************************************)
\* number of adapter calls in one behaviour
MaxCalls == 3

VARIABLES
  aKind,    \* "claude", "deepseek" or "base"
  aCall,    \* the adapter call in progress, or the last one
  aPc,      \* "idle", "created" (a generator not yet started), "remote" (the
            \* request is pending), "answered" (the continuation has not run)
  aResp,    \* the answer of the backend to the last request
  aResult,  \* how the last adapter call ended
  aDone,    \* number of answers received
  aProvider, \* the fields of the adapter
  aBuilt,   \* ghost: what getConfig reported right after construction
  aSeen     \* None, or what the last getConfig call returned

adapterVars == <<aKind, aCall, aPc, aResp, aResult, aDone, aProvider, aBuilt, aSeen>>

\* the configurations the adapter is constructed with
AdapterConfigs ==
  { DummyConfig,
    [apiKey |-> <<"key">>, model |-> Some(<<"m">>), maxTokens |-> Some(100),
     temperature |-> Some(10), baseURL |-> None] }

\* the model a backend names in its response
ServedModel == <<"served-model">>

Kinds == {"claude", "deepseek", "base"}

NoCall == [op |-> "none", caller |-> "none", requests |-> 0, chats |-> 0]
NoResp ==
  [net |-> "none", status |-> "0", body |-> "none", content |-> <<>>, model |-> <<>>]
NoResult ==
  [kind |-> "none", content |-> <<>>, valid |-> FALSE, message |-> <<>>,
   fragments |-> <<>>, model |-> <<>>]

\* what fetch can settle with: a network failure, or a status and a body
\* that is a completion, a JSON error object, no JSON at all, or absent
FetchOutcomes ==
  { [net |-> "down", status |-> "0", body |-> "none", content |-> <<>>, model |-> <<>>] } \cup
  { [net |-> "up", status |-> st, body |-> b, content |-> <<>>, model |-> <<>>] :
      st \in {"200", "401", "500"}, b \in {"errjson", "garbage", "none"} } \cup
  { [net |-> "up", status |-> st, body |-> "completion", content |-> c, model |-> ServedModel] :
      st \in {"200", "500"}, c \in Replies }

\* what client.messages.create can settle with: it resolves with a message on
\* status 200 and rejects otherwise
CreateOutcomes ==
  { [net |-> "down", status |-> "0", body |-> "none", content |-> <<>>, model |-> <<>>] } \cup
  { [net |-> "up", status |-> st, body |-> "errjson", content |-> <<>>, model |-> <<>>] :
      st \in {"401", "500"} } \cup
  { [net |-> "up", status |-> "200", body |-> "completion", content |-> c, model |-> ServedModel] :
      c \in Replies }

Outcomes(kind) == IF kind = "deepseek" THEN FetchOutcomes ELSE CreateOutcomes

Value(content) == [NoResult EXCEPT !.kind = "value", !.content = content]
\* the ModelResponse built from a completion: content and model of the response
Response(resp) == [Value(resp.content) EXCEPT !.model = resp.model]
Bool(b) == [NoResult EXCEPT !.kind = "value", !.valid = b]
Err(message) == [NoResult EXCEPT !.kind = "error", !.message = message]
Streaming == [NoResult EXCEPT !.kind = "streaming"]

\* response.ok
Ok(resp) == resp.status = "200"

\* JSON.stringify(await response.json().catch(() => ({})))
ErrorData(resp) ==
  IF resp.body = "errjson" THEN <<"{error}">>
  ELSE IF resp.body = "completion" THEN <<"{choices}">>
  ELSE <<"{}">>

\* the message of the error thrown for a response that is not ok
HttpErrorMutant(resp) ==
  IF resp.body \in {"garbage", "none"} THEN <<"Unexpected end of JSON input">>
  ELSE <<"DeepSeek API error:", resp.status, "-">> \o ErrorData(resp)
HttpError(resp) == <<"DeepSeek API error:", resp.status, "-">> \o ErrorData(resp)

\* the message of whatever is thrown inside the try block of DeepSeekProvider.chat
DeepSeekFailure(resp) ==
  IF resp.net = "down" THEN <<"fetch failed">>
  ELSE IF ~Ok(resp) THEN HttpError(resp)
  ELSE IF resp.body \in {"garbage", "none"} THEN <<"Unexpected end of JSON input">>
  ELSE <<"Cannot read properties of undefined">>

\* DeepSeekProvider.chat once fetch has settled
DeepSeekChatResult(resp) ==
  IF resp.net = "up" /\ Ok(resp) /\ resp.body = "completion"
  THEN Response(resp)
  ELSE Err(<<"DeepSeek API error:">> \o DeepSeekFailure(resp))

\* DeepSeekProvider.streamChat once fetch has settled, up to the while loop
DeepSeekStreamResult(resp) ==
  IF resp.net = "down" THEN Err(<<"DeepSeek stream error:", "fetch failed">>)
  ELSE IF ~Ok(resp) THEN Err(<<"DeepSeek stream error:">> \o HttpError(resp))
  ELSE IF resp.body = "none" THEN Err(<<"DeepSeek stream error:", "cannot read the stream">>)
  ELSE Streaming

\* DeepSeekProvider.validateApiKey once fetch has settled
DeepSeekValidateMutant(resp) ==
  IF resp.net = "down" THEN Err(<<"fetch failed">>) ELSE Bool(Ok(resp))
DeepSeekValidate(resp) ==
  IF resp.net = "down" THEN Bool(FALSE) ELSE Bool(Ok(resp))

\* the message of the error client.messages.create rejects with
CreateFailure(resp) ==
  IF resp.net = "down" THEN <<"Connection error.">>
  ELSE <<resp.status>> \o ErrorData(resp)

\* messages.create resolved
Resolved(resp) == resp.net = "up" /\ Ok(resp)

\* ClaudeProvider.chat once messages.create has settled
ClaudeChatResult(resp) ==
  IF Resolved(resp) THEN Response(resp)
  ELSE Err(<<"Claude API error:">> \o CreateFailure(resp))

\* ClaudeProvider.streamChat once messages.create has settled
ClaudeStreamResult(resp) ==
  IF Resolved(resp) THEN Streaming
  ELSE Err(<<"Claude stream error:">> \o CreateFailure(resp))

\* ClaudeProvider.validateApiKey once messages.create has settled
ClaudeValidate(resp) == Bool(Resolved(resp))

\* chat of an adapter that inherits streamChat: it returns a response or throws
BaseChatResult(resp) ==
  IF Resolved(resp) THEN Response(resp)
  ELSE Err(<<"backend error:">> \o CreateFailure(resp))

\* ModelProvider.streamChat: await this.chat, yield response.content
DefaultStreamMutant(chatResult) ==
  IF chatResult.kind = "value"
  THEN [NoResult EXCEPT !.kind = "ended", !.fragments = <<chatResult.content>>]
  ELSE [NoResult EXCEPT !.kind = "ended"]
DefaultStream(chatResult) ==
  IF chatResult.kind = "value"
  THEN [NoResult EXCEPT !.kind = "ended", !.fragments = <<chatResult.content>>]
  ELSE chatResult

\* how the call of operation op ends once the backend has answered
ResultOf(kind, op, resp) ==
  IF kind = "deepseek"
  THEN IF op = "chat" THEN DeepSeekChatResult(resp)
       ELSE IF op = "streamChat" THEN DeepSeekStreamResult(resp)
       ELSE DeepSeekValidate(resp)
  ELSE IF kind = "claude"
  THEN IF op = "chat" THEN ClaudeChatResult(resp)
       ELSE IF op = "streamChat" THEN ClaudeStreamResult(resp)
       ELSE ClaudeValidate(resp)
  ELSE IF op = "chat" THEN BaseChatResult(resp)
       ELSE DefaultStream(BaseChatResult(resp))

\* what a call does after its request has settled: it ends, whatever the result
SettledMutant(r, call) ==
  IF r.kind = "error"
  THEN [pc |-> "remote", call |-> [call EXCEPT !.requests = @ + 1]]
  ELSE [pc |-> "idle", call |-> call]
Settled(r, call) == [pc |-> "idle", call |-> call]

\* the fields of the adapter after a call has ended with result r: no method
\* assigns this.model, this.maxTokens or this.temperature
ProviderAfterMutant(p, r) == IF r.kind = "value" /\ r.model # <<>> THEN [p EXCEPT !.model = r.model] ELSE p
ProviderAfter(p, r) == p

AdapterOff ==
  /\ aKind = "base"
  /\ aCall = NoCall
  /\ aPc = "idle"
  /\ aResp = NoResp
  /\ aResult = NoResult
  /\ aDone = 0
  /\ aProvider = NewProvider("base", DummyConfig)
  /\ aBuilt = getConfig(aProvider)
  /\ aSeen = None

AdapterInit ==
  /\ aKind \in Kinds
  /\ aCall = NoCall
  /\ aPc = "idle"
  /\ aResp = NoResp
  /\ aResult = NoResult
  /\ aDone = 0
  /\ \E config \in AdapterConfigs : aProvider = NewProvider(aKind, config)
  /\ aBuilt = getConfig(aProvider)
  /\ aSeen = None

\* a caller calls getConfig
GetConfig ==
  /\ aSeen' = Some(getConfig(aProvider))
  /\ UNCHANGED <<aKind, aCall, aPc, aResp, aResult, aDone, aProvider, aBuilt>>

\* a caller calls chat: the request is issued before the first await
CallChat ==
  /\ aPc = "idle"
  /\ aDone < MaxCalls
  /\ aCall' = [op |-> "chat", caller |-> "direct", requests |-> 1, chats |-> 1]
  /\ aPc' = "remote"
  /\ UNCHANGED <<aKind, aResp, aResult, aDone, aProvider, aBuilt, aSeen>>

\* a caller calls validateApiKey
CallValidate ==
  /\ aPc = "idle"
  /\ aDone < MaxCalls
  /\ aKind # "base"
  /\ aCall' = [op |-> "validateApiKey", caller |-> "direct", requests |-> 1, chats |-> 0]
  /\ aPc' = "remote"
  /\ UNCHANGED <<aKind, aResp, aResult, aDone, aProvider, aBuilt, aSeen>>

\* a caller calls streamChat: the generator is created, its body has not started
CallStream ==
  /\ aPc = "idle"
  /\ aDone < MaxCalls
  /\ aCall' = [op |-> "streamChat", caller |-> "direct", requests |-> 0, chats |-> 0]
  /\ aPc' = "created"
  /\ UNCHANGED <<aKind, aResp, aResult, aDone, aProvider, aBuilt, aSeen>>

\* the consumer asks for the first fragment: the body runs up to its first await
StreamStart ==
  /\ aPc = "created"
  /\ aCall' = [aCall EXCEPT !.requests = @ + 1,
                            !.chats = IF aKind = "base" THEN @ + 1 ELSE @]
  /\ aPc' = "remote"
  /\ UNCHANGED <<aKind, aResp, aResult, aDone, aProvider, aBuilt, aSeen>>

\* NovelAgent.chat calls provider.chat
CallAgentChat(userMessage) ==
  /\ aPc = "idle"
  /\ aDone < MaxCalls
  /\ inflight = {}
  /\ ~exited
  /\ ChatCall(userMessage)
  /\ lastOp' = "other"
  /\ aCall' = [op |-> "chat", caller |-> "agent", requests |-> 1, chats |-> 1]
  /\ aPc' = "remote"
  /\ UNCHANGED <<aKind, aResp, aResult, aDone, aProvider, aBuilt, aSeen>>

\* the backend answers the pending request
Answer(resp) ==
  /\ aPc = "remote"
  /\ aResp' = resp
  /\ aPc' = "answered"
  /\ UNCHANGED <<aKind, aCall, aResult, aDone, aProvider, aBuilt, aSeen>>

\* the continuation of the await runs: the call ends and, for
\* NovelAgent.chat, its continuation runs too
Settle ==
  /\ aPc = "answered"
  /\ LET r == ResultOf(aKind, aCall.op, aResp)
         next == Settled(r, aCall) IN
       /\ aResult' = r
       /\ aPc' = next.pc
       /\ aCall' = next.call
       /\ IF aCall.caller = "agent"
          THEN \E c \in inflight :
                 IF r.kind = "value" THEN ChatResolve(c, r.content)
                 ELSE ChatReject(c, r.message)
          ELSE UNCHANGED sessionVars
  /\ aProvider' = ProviderAfter(aProvider, ResultOf(aKind, aCall.op, aResp))
  /\ aDone' = aDone + 1
  /\ UNCHANGED <<aKind, aResp, aBuilt, aSeen>>

(***************************************************************************)
(* A caller of the NovelAgent methods that keeps the array returned by     *)
(* getHistory and changes it.                                              *)
(*                                                                         *)
(* An array is its elements plus whether it is the very array held in      *)
(* this.conversationHistory: push on either one is then seen through both. *)
(***************************************************************************)
\* longest array the caller builds by appending
MaxSnapshot == 4

VARIABLES
  snapshot,  \* the array the caller got from getHistory
  shadow,    \* ghost: the history as chat and clearHistory alone have built it
  failed     \* ghost: the user texts of the chat calls that failed in a row, uncleared

apiVars == <<snapshot, shadow, failed>>

NoSnapshot == [alias |-> FALSE, items |-> <<>>]

\* return [...this.conversationHistory]
CopyHistoryMutant(h) == [alias |-> TRUE, items |-> h]
CopyHistory(h) == [alias |-> FALSE, items |-> h]

\* the caller's array after the session has pushed onto its own
Follow(s, h) == IF s.alias THEN [s EXCEPT !.items = h] ELSE s

\* what the caller writes into the array
Foreign == Msg("user", <<"x">>)

\* the changes a caller can make to an array: push, pop, shift, arr[0] = ...
Mutations(items) ==
  (IF Len(items) < MaxSnapshot THEN {items \o <<Foreign>>} ELSE {}) \cup
  (IF Len(items) > 0
   THEN {SubSeq(items, 1, Len(items) - 1), Tail(items), [items EXCEPT ![1] = Foreign]}
   ELSE {})

ApiOff ==
  /\ snapshot = NoSnapshot
  /\ shadow = <<>>
  /\ failed = <<>>

\* agent.chat(userMessage) up to the await
ApiChat(userMessage) ==
  /\ ~exited
  /\ inflight = {}
  /\ ChatCall(userMessage)
  /\ lastOp' = "chat"
  /\ snapshot' = Follow(snapshot, conversationHistory')
  /\ shadow' = PushUser(shadow, userMessage)
  /\ UNCHANGED failed

\* the provider answers agent.chat
ApiResolve(c, content) ==
  /\ ChatResolve(c, content)
  /\ snapshot' = Follow(snapshot, conversationHistory')
  /\ shadow' = PushAssistant(shadow, content)
  /\ failed' = <<>>

\* the provider fails agent.chat
ApiReject(c, error) ==
  /\ ChatReject(c, error)
  /\ failed' = IF c.alone THEN Append(failed, c.text) ELSE <<>>
  /\ UNCHANGED <<snapshot, shadow>>

\* agent.clearHistory(): the session gets a new array
ApiClear ==
  /\ ~exited
  /\ ClearHistory
  /\ lastOp' = "clear"
  /\ snapshot' = [snapshot EXCEPT !.alias = FALSE]
  /\ shadow' = <<>>
  /\ failed' = <<>>

\* snapshot = agent.getHistory()
ApiGetHistory ==
  /\ ~exited
  /\ snapshot' = CopyHistory(conversationHistory)
  /\ lastOp' = "get"
  /\ UNCHANGED <<agentVars, shadow, failed>>

\* the caller changes the array it holds
ApiMutate(items) ==
  /\ ~exited
  /\ snapshot' = [snapshot EXCEPT !.items = items]
  /\ conversationHistory' = IF snapshot.alias THEN items ELSE conversationHistory
  /\ lastOp' = "mutate"
  /\ UNCHANGED <<inflight, nextId, outcome, okCalls, serial, exited, shadow, failed>>

(***************************************************************************)
(* The ModelResponse ClaudeProvider.chat builds from a message of the      *)
(* backend, claude.ts.                                                     *)
(***************************************************************************)
\* number of content blocks of a message
MaxBlocks == 3

VARIABLES
  rBlocks,   \* response.content
  rUsage,    \* response.usage
  rResponse  \* None, or the ModelResponse returned

responseVars == <<rBlocks, rUsage, rResponse>>

\* the content blocks a backend may send; only a text block has a text field
Blocks ==
  { [type |-> "text", text |-> <<"a">>],
    [type |-> "text", text |-> <<"b">>],
    [type |-> "text", text |-> <<>>],
    [type |-> "tool_use", text |-> <<"{input}">>],
    [type |-> "thinking", text |-> <<"hm">>] }

\* the token counts a backend may report
Usages == [input_tokens : {0, 5}, output_tokens : {0, 7}]

\* .filter((block) => block.type === 'text')
IsTextBlockMutant(block) == TRUE
IsTextBlock(block) == block.type = "text"

\* .map((block) => ('text' in block ? block.text : ''))
BlockText(block) == IF block.type = "text" THEN block.text ELSE <<>>

RECURSIVE Join(_)
\* Array.prototype.join('\n')
Join(texts) ==
  IF texts = <<>> THEN <<>>
  ELSE IF Len(texts) = 1 THEN texts[1]
  ELSE texts[1] \o <<"NL">> \o Join(Tail(texts))

\* the object ClaudeProvider.chat returns for a message
ClaudeModelResponse(blocks, usage) ==
  LET kept == SelectSeq(blocks, IsTextBlock) IN
  [ content |-> Join([i \in 1..Len(kept) |-> BlockText(kept[i])]),
    model |-> ServedModel,
    usage |-> [ promptTokens |-> usage.input_tokens,
                completionTokens |-> usage.output_tokens,
                totalTokens |-> usage.input_tokens + usage.output_tokens ] ]

ResponseOff ==
  /\ rBlocks = <<>>
  /\ rUsage = [input_tokens |-> 0, output_tokens |-> 0]
  /\ rResponse = None

ResponseInit ==
  /\ rBlocks \in SeqsUpTo(Blocks, MaxBlocks)
  /\ rUsage \in Usages
  /\ rResponse = None

\* messages.create has resolved: chat builds its result
ClaudeReturn ==
  /\ rResponse = None
  /\ rResponse' = Some(ClaudeModelResponse(rBlocks, rUsage))
  /\ UNCHANGED <<rBlocks, rUsage>>

(***************************************************************************)
(* Two NovelAgent instances in one process, agent.ts.                      *)
(*                                                                         *)
(* A field of the class is a function from the instances to its values.    *)
(***************************************************************************)
\* number of chat calls on one instance
MaxTurns == 2

VARIABLES
  tHist,     \* conversationHistory of each instance
  tPending,  \* None, or the user text of the pending chat call of each instance
  tProv,     \* the fields of the provider of each instance
  tCount,    \* number of chat calls made on each instance
  tSolo,     \* ghost: the history each instance has by its own calls alone
  tSeen      \* the last array returned by getHistory, and by which instance

twoVars == <<tHist, tPending, tProv, tCount, tSolo, tSeen>>

Sessions == {1, 2}

\* what the user of each instance types
TextOf(i) == IF i = 1 THEN <<"m1">> ELSE <<"m2">>

\* the assignment of value v to an instance field of instance i
OfSessionMutant(field, i, v) == [j \in DOMAIN field |-> v]
OfSession(field, i, v) == [field EXCEPT ![i] = v]

NoSeen == [session |-> 0, items |-> <<>>]

TwoOff ==
  /\ tHist = [i \in Sessions |-> <<>>]
  /\ tPending = [i \in Sessions |-> None]
  /\ tProv = [i \in Sessions |-> NewProvider("claude", DummyConfig)]
  /\ tCount = [i \in Sessions |-> 0]
  /\ tSolo = [i \in Sessions |-> <<>>]
  /\ tSeen = NoSeen

\* new NovelAgent(config), twice
TwoInit ==
  /\ tHist = [i \in Sessions |-> <<>>]
  /\ tPending = [i \in Sessions |-> None]
  /\ \E type \in {"claude", "deepseek"}, config \in AdapterConfigs :
       tProv = [i \in Sessions |->
                  IF i = 1 THEN createProvider("claude", config).provider
                  ELSE createProvider(type, DummyConfig).provider]
  /\ tCount = [i \in Sessions |-> 0]
  /\ tSolo = [i \in Sessions |-> <<>>]
  /\ tSeen = NoSeen

\* chat on instance i, up to the await
TwoChat(i) ==
  /\ tPending[i] = None
  /\ tCount[i] < MaxTurns
  /\ tHist' = OfSession(tHist, i, PushUser(tHist[i], TextOf(i)))
  /\ tSolo' = [tSolo EXCEPT ![i] = PushUser(@, TextOf(i))]
  /\ tPending' = [tPending EXCEPT ![i] = Some(TextOf(i))]
  /\ tCount' = [tCount EXCEPT ![i] = @ + 1]
  /\ UNCHANGED <<tProv, tSeen>>

\* the provider of instance i answers: chat pushes the assistant message
TwoResolve(i, content) ==
  /\ tPending[i] # None
  /\ tHist' = OfSession(tHist, i, PushAssistant(tHist[i], content))
  /\ tSolo' = [tSolo EXCEPT ![i] = PushAssistant(@, content)]
  /\ tProv' = OfSession(tProv, i, ProviderAfter(tProv[i], Value(content)))
  /\ tPending' = [tPending EXCEPT ![i] = None]
  /\ UNCHANGED <<tCount, tSeen>>

\* the provider of instance i fails: chat rethrows
TwoReject(i) ==
  /\ tPending[i] # None
  /\ tPending' = [tPending EXCEPT ![i] = None]
  /\ UNCHANGED <<tHist, tSolo, tProv, tCount, tSeen>>

\* clearHistory on instance i
TwoClear(i) ==
  /\ tHist' = OfSession(tHist, i, <<>>)
  /\ tSolo' = [tSolo EXCEPT ![i] = <<>>]
  /\ UNCHANGED <<tPending, tProv, tCount, tSeen>>

\* getHistory on instance i
TwoGetHistory(i) ==
  /\ tSeen' = [session |-> i, items |-> CopyHistory(tHist[i]).items]
  /\ UNCHANGED <<tHist, tPending, tProv, tCount, tSolo>>

(***************************************************************************)
(* The interactive session with what it writes, agent.ts.                  *)
(*                                                                         *)
(* screen is what the last step of the session wrote: "prompt" stands for  *)
(* rl.prompt(), every other token for one message on the console.          *)
(***************************************************************************)
VARIABLES
  screen    \* what the last step of the session wrote

ioVars == <<screen>>

\* what the line handler writes for a line before it returns or awaits
Shown(line) ==
  LET input == Trim(line) IN
  IF input = <<"/quit">> \/ input = <<"/exit">> THEN <<"bye", "session ended">>
  ELSE IF input = <<"/clear">> THEN <<"cleared", "prompt">>
  ELSE IF input = <<"/history">> THEN <<"history", "prompt">>
  ELSE IF input = <<"/info">> THEN <<"info", "prompt">>
  ELSE IF input = <<>> THEN <<"prompt">>
  ELSE <<"thinking">>

ScreenOff == screen = <<>>

\* startInteractiveSession up to rl.on: the banner and the first prompt
ScreenInit == screen = <<"banner", "prompt">>

\* the line handler, up to its return or its await
HandleLine(line) ==
  /\ Line(line)
  /\ screen' = Shown(line)

\* the line handler after the await, chat returned: the reply and the prompt
HandlerResolve(c, content) ==
  /\ ChatResolve(c, content)
  /\ screen' = <<"reply", "prompt">>

\* the line handler after the await, chat threw: the catch block and the prompt
HandlerRejectMutant(c, error) ==
  /\ ~exited
  /\ c \in inflight
  /\ inflight' = inflight \ {c}
  /\ outcome' = [kind |-> "thrown", id |-> c.id, alone |-> c.alone,
                 provider |-> error, value |-> Rethrow(error)]
  /\ serial' = FALSE
  /\ lastOp' = "other"
  /\ exited' = TRUE
  /\ screen' = <<"error">>
  /\ UNCHANGED <<conversationHistory, nextId, okCalls>>
HandlerReject(c, error) ==
  /\ ChatReject(c, error)
  /\ screen' = <<"error", "prompt">>

\* the input is closed: the close handler exits
Close ==
  /\ ~exited
  /\ exited' = TRUE
  /\ screen' = <<"session ended">>
  /\ lastOp' = "other"
  /\ UNCHANGED <<conversationHistory, inflight, nextId, outcome, okCalls, serial>>

(***************************************************************************)
(* Start-up, main of the entry module.                                     *)
(*                                                                         *)
(* env holds the environment variables main decides on, each unset (None), *)
(* empty (Some of the empty value) or set.  MODEL_NAME, MAX_TOKENS,        *)
(* TEMPERATURE and MODEL_BASE_URL are unset in every start modelled here.  *)
(***************************************************************************)
VARIABLES
  env,        \* process.env
  mPc,        \* "start", "checked", "constructed", "session" or "exit"
  mProvider,  \* the local provider of main, "" before it is assigned
  mApiKey,    \* the local apiKey of main, None while undefined
  mAgent,     \* None, or the provider of the NovelAgent main constructed
  mCode       \* None, or the code the process exited with

mainVars == <<env, mPc, mProvider, mApiKey, mAgent, mCode>>

\* values of MODEL_PROVIDER
ProviderNames == {None, Some(""), Some("claude"), Some("deepseek"),
                  Some("openai"), Some("Claude")}

Environments ==
  [ MODEL_PROVIDER : ProviderNames,
    ANTHROPIC_API_KEY : {None, Some(<<>>), Some(<<"ka">>)},
    DEEPSEEK_API_KEY : {None, Some(<<>>), Some(<<"kd">>)},
    API_KEY : {None, Some(<<>>), Some(<<"kg">>)} ]

\* !x for an optional text
Falsy(x) == x = None \/ x[1] = <<>>

\* x || y for two optional texts
Or(x, y) == IF Falsy(x) THEN y ELSE x

\* process.env.MODEL_PROVIDER || 'claude'
ProviderOf(e) ==
  IF e.MODEL_PROVIDER = None \/ e.MODEL_PROVIDER[1] = ""
  THEN "claude" ELSE e.MODEL_PROVIDER[1]

\* the apiKey main looks up for a supported provider
ApiKeyOfMutant(provider, e) ==
  IF provider = "claude" THEN Or(e.API_KEY, e.ANTHROPIC_API_KEY)
  ELSE IF provider = "deepseek" THEN Or(e.API_KEY, e.DEEPSEEK_API_KEY)
  ELSE None
ApiKeyOf(provider, e) ==
  IF provider = "claude" THEN Or(e.ANTHROPIC_API_KEY, e.API_KEY)
  ELSE IF provider = "deepseek" THEN Or(e.DEEPSEEK_API_KEY, e.API_KEY)
  ELSE None

\* the AgentConfig main builds, as the ModelConfig the constructor passes on
AgentConfig(provider, apiKey) ==
  [apiKey |-> apiKey, model |-> None, maxTokens |-> None,
   temperature |-> None, baseURL |-> None]

MainOff ==
  /\ env = [MODEL_PROVIDER |-> None, ANTHROPIC_API_KEY |-> None,
            DEEPSEEK_API_KEY |-> None, API_KEY |-> None]
  /\ mPc = "off"
  /\ mProvider = ""
  /\ mApiKey = None
  /\ mAgent = None
  /\ mCode = None

MainInit ==
  /\ env \in Environments
  /\ mPc = "start"
  /\ mProvider = ""
  /\ mApiKey = None
  /\ mAgent = None
  /\ mCode = None

\* process.exit(1)
Exit1 ==
  /\ mPc' = "exit"
  /\ mCode' = Some(1)

\* main up to the try block: the provider and the key are validated
MainCheck ==
  /\ mPc = "start"
  /\ LET provider == ProviderOf(env)
         apiKey == ApiKeyOf(provider, env)
     IN /\ mProvider' = provider
        /\ IF ~isSupported(provider)
           THEN Exit1 /\ UNCHANGED mApiKey
           ELSE /\ mApiKey' = apiKey
                /\ IF Falsy(apiKey)
                   THEN Exit1
                   ELSE mPc' = "checked" /\ UNCHANGED mCode
  /\ UNCHANGED <<env, mAgent>>

\* new NovelAgent: the constructor asks the factory for the provider; a throw
\* lands in the catch block of main
MainConstruct ==
  /\ mPc = "checked"
  /\ LET made == createProvider(mProvider, AgentConfig(mProvider, mApiKey[1]))
     IN IF made.kind = "instance"
        THEN /\ mAgent' = Some(made.provider)
             /\ mPc' = "constructed"
             /\ UNCHANGED mCode
        ELSE Exit1 /\ UNCHANGED mAgent
  /\ UNCHANGED <<env, mProvider, mApiKey>>

\* agent.startInteractiveSession()
MainSession ==
  /\ mPc = "constructed"
  /\ mPc' = "session"
  /\ UNCHANGED <<env, mProvider, mApiKey, mAgent, mCode>>

(***************************************************************************)
(* Specifications.                                                         *)
(***************************************************************************)
vars == <<sessionVars, streamVars, claudeVars, factoryVars, requestVars, adapterVars, apiVars, responseVars, twoVars, ioVars, mainVars>>

\* the interactive session
Init == AgentInit /\ StreamOff /\ ClaudeStreamOff /\ FactoryOff /\ RequestOff /\ AdapterOff /\ ApiOff /\ ResponseOff /\ TwoOff /\ ScreenOff /\ MainOff

Next ==
  \/ \E line \in InputLines : Line(line) /\ UNCHANGED <<streamVars, claudeVars, factoryVars, requestVars, adapterVars, apiVars, responseVars, twoVars, ioVars, mainVars>>
  \/ \E c \in inflight, content \in Replies :
       ChatResolve(c, content) /\ UNCHANGED <<streamVars, claudeVars, factoryVars, requestVars, adapterVars, apiVars, responseVars, twoVars, ioVars, mainVars>>
  \/ \E c \in inflight, error \in Errors :
       ChatReject(c, error) /\ UNCHANGED <<streamVars, claudeVars, factoryVars, requestVars, adapterVars, apiVars, responseVars, twoVars, ioVars, mainVars>>

Spec == Init /\ [][Next]_vars

\* one run of DeepSeekProvider.streamChat over every response body, or one run
\* of ClaudeProvider.streamChat over every sequence of events
InitStream ==
  /\ AgentInit /\ FactoryOff /\ RequestOff /\ AdapterOff /\ ApiOff /\ ResponseOff /\ TwoOff /\ ScreenOff /\ MainOff
  /\ \/ StreamInit /\ ClaudeStreamOff
     \/ StreamOff /\ ClaudeStreamInit

NextStream ==
  \/ \E k \in 1..(Len(stream) - pos) : Read(k) /\ UNCHANGED <<sessionVars, claudeVars, factoryVars, requestVars, adapterVars, apiVars, responseVars, twoVars, ioVars, mainVars>>
  \/ ReadDone /\ UNCHANGED <<sessionVars, claudeVars, factoryVars, requestVars, adapterVars, apiVars, responseVars, twoVars, ioVars, mainVars>>
  \/ ReadFail /\ UNCHANGED <<sessionVars, claudeVars, factoryVars, requestVars, adapterVars, apiVars, responseVars, twoVars, ioVars, mainVars>>
  \/ ForLine /\ UNCHANGED <<sessionVars, claudeVars, factoryVars, requestVars, adapterVars, apiVars, responseVars, twoVars, ioVars, mainVars>>
  \/ ForEnd /\ UNCHANGED <<sessionVars, claudeVars, factoryVars, requestVars, adapterVars, apiVars, responseVars, twoVars, ioVars, mainVars>>
  \/ Resume /\ UNCHANGED <<sessionVars, claudeVars, factoryVars, requestVars, adapterVars, apiVars, responseVars, twoVars, ioVars, mainVars>>
  \/ Abandon /\ UNCHANGED <<sessionVars, claudeVars, factoryVars, requestVars, adapterVars, apiVars, responseVars, twoVars, ioVars, mainVars>>
  \/ \E body \in LaterInputs : StreamAgain(body) /\ UNCHANGED <<sessionVars, claudeVars, factoryVars, requestVars, adapterVars, apiVars, responseVars, twoVars, ioVars, mainVars>>
  \/ ClaudeCreate /\ UNCHANGED <<sessionVars, streamVars, factoryVars, requestVars, adapterVars, apiVars, responseVars, twoVars, ioVars, mainVars>>
  \/ ClaudeStreamFail /\ UNCHANGED <<sessionVars, streamVars, factoryVars, requestVars, adapterVars, apiVars, responseVars, twoVars, ioVars, mainVars>>
  \/ ClaudeEvent /\ UNCHANGED <<sessionVars, streamVars, factoryVars, requestVars, adapterVars, apiVars, responseVars, twoVars, ioVars, mainVars>>
  \/ ClaudeEnd /\ UNCHANGED <<sessionVars, streamVars, factoryVars, requestVars, adapterVars, apiVars, responseVars, twoVars, ioVars, mainVars>>
  \/ ClaudeResume /\ UNCHANGED <<sessionVars, streamVars, factoryVars, requestVars, adapterVars, apiVars, responseVars, twoVars, ioVars, mainVars>>
  \/ ClaudeAbandon /\ UNCHANGED <<sessionVars, streamVars, factoryVars, requestVars, adapterVars, apiVars, responseVars, twoVars, ioVars, mainVars>>
  \/ \E events \in SeqsUpTo(ClaudeEvents, 1) : ClaudeStreamAgain(events) /\ UNCHANGED <<sessionVars, streamVars, factoryVars, requestVars, adapterVars, apiVars, responseVars, twoVars, ioVars, mainVars>>

SpecStream == InitStream /\ [][NextStream]_vars

\* the factory over every identifier and configuration
InitFactory == AgentInit /\ StreamOff /\ ClaudeStreamOff /\ FactoryInit /\ RequestOff /\ AdapterOff /\ ApiOff /\ ResponseOff /\ TwoOff /\ ScreenOff /\ MainOff

NextFactory ==
  \/ CreateProvider /\ UNCHANGED <<sessionVars, streamVars, claudeVars, requestVars, adapterVars, apiVars, responseVars, twoVars, ioVars, mainVars>>
  \/ Describe /\ UNCHANGED <<sessionVars, streamVars, claudeVars, requestVars, adapterVars, apiVars, responseVars, twoVars, ioVars, mainVars>>

SpecFactory == InitFactory /\ [][NextFactory]_vars

\* request building over every history and system instruction
InitRequest == AgentInit /\ StreamOff /\ ClaudeStreamOff /\ FactoryOff /\ RequestInit /\ AdapterOff /\ ApiOff /\ ResponseOff /\ TwoOff /\ ScreenOff /\ MainOff

NextRequest ==
  \/ ClaudeChat /\ UNCHANGED <<sessionVars, streamVars, claudeVars, factoryVars, adapterVars, apiVars, responseVars, twoVars, ioVars, mainVars>>
  \/ ClaudeStreamChat /\ UNCHANGED <<sessionVars, streamVars, claudeVars, factoryVars, adapterVars, apiVars, responseVars, twoVars, ioVars, mainVars>>
  \/ DeepSeekChat /\ UNCHANGED <<sessionVars, streamVars, claudeVars, factoryVars, adapterVars, apiVars, responseVars, twoVars, ioVars, mainVars>>
  \/ DeepSeekStreamChat /\ UNCHANGED <<sessionVars, streamVars, claudeVars, factoryVars, adapterVars, apiVars, responseVars, twoVars, ioVars, mainVars>>

SpecRequest == InitRequest /\ [][NextRequest]_vars

\* one adapter of each kind under a sequence of calls, each with every answer
InitAdapter ==
  AgentInit /\ StreamOff /\ ClaudeStreamOff /\ FactoryOff /\ RequestOff /\ AdapterInit /\ ApiOff /\ ResponseOff /\ TwoOff /\ ScreenOff /\ MainOff

NextAdapter ==
  \/ CallChat /\ UNCHANGED <<sessionVars, streamVars, claudeVars, factoryVars, requestVars, apiVars, responseVars, twoVars, ioVars, mainVars>>
  \/ CallValidate /\ UNCHANGED <<sessionVars, streamVars, claudeVars, factoryVars, requestVars, apiVars, responseVars, twoVars, ioVars, mainVars>>
  \/ CallStream /\ UNCHANGED <<sessionVars, streamVars, claudeVars, factoryVars, requestVars, apiVars, responseVars, twoVars, ioVars, mainVars>>
  \/ StreamStart /\ UNCHANGED <<sessionVars, streamVars, claudeVars, factoryVars, requestVars, apiVars, responseVars, twoVars, ioVars, mainVars>>
  \/ \E text \in {<<"m1">>, <<"m2">>} :
       CallAgentChat(text) /\ UNCHANGED <<streamVars, claudeVars, factoryVars, requestVars, apiVars, responseVars, twoVars, ioVars, mainVars>>
  \/ \E resp \in Outcomes(aKind) :
       Answer(resp) /\ UNCHANGED <<sessionVars, streamVars, claudeVars, factoryVars, requestVars, apiVars, responseVars, twoVars, ioVars, mainVars>>
  \/ Settle /\ UNCHANGED <<streamVars, claudeVars, factoryVars, requestVars, apiVars, responseVars, twoVars, ioVars, mainVars>>
  \/ GetConfig /\ UNCHANGED <<sessionVars, streamVars, claudeVars, factoryVars, requestVars, apiVars, responseVars, twoVars, ioVars, mainVars>>

SpecAdapter == InitAdapter /\ [][NextAdapter]_vars

\* the same, where the continuation of an answered request does run; the
\* answer itself is the backend's to give or to withhold
SpecAdapterLive ==
  /\ InitAdapter
  /\ [][NextAdapter]_vars
  /\ WF_vars(Settle /\ UNCHANGED <<streamVars, claudeVars, factoryVars, requestVars, apiVars, responseVars, twoVars, ioVars, mainVars>>)

\* a caller of the NovelAgent methods that keeps and changes a history array
InitApi ==
  /\ AgentInit /\ StreamOff /\ ClaudeStreamOff /\ FactoryOff /\ RequestOff
  /\ AdapterOff /\ ApiOff /\ ResponseOff /\ TwoOff /\ ScreenOff /\ MainOff

NextApi ==
  \/ \E text \in {<<"m1">>, <<"m2">>} :
       ApiChat(text)
       /\ UNCHANGED <<streamVars, claudeVars, factoryVars, requestVars, adapterVars, responseVars, twoVars, ioVars, mainVars>>
  \/ \E c \in inflight, content \in Replies :
       ApiResolve(c, content)
       /\ UNCHANGED <<streamVars, claudeVars, factoryVars, requestVars, adapterVars, responseVars, twoVars, ioVars, mainVars>>
  \/ \E c \in inflight, error \in Errors :
       ApiReject(c, error)
       /\ UNCHANGED <<streamVars, claudeVars, factoryVars, requestVars, adapterVars, responseVars, twoVars, ioVars, mainVars>>
  \/ ApiClear
       /\ UNCHANGED <<streamVars, claudeVars, factoryVars, requestVars, adapterVars, responseVars, twoVars, ioVars, mainVars>>
  \/ ApiGetHistory
       /\ UNCHANGED <<streamVars, claudeVars, factoryVars, requestVars, adapterVars, responseVars, twoVars, ioVars, mainVars>>
  \/ \E items \in Mutations(snapshot.items) :
       ApiMutate(items)
       /\ UNCHANGED <<streamVars, claudeVars, factoryVars, requestVars, adapterVars, responseVars, twoVars, ioVars, mainVars>>

SpecApi == InitApi /\ [][NextApi]_vars

\* ClaudeProvider.chat on every message of at most MaxBlocks content blocks
InitResponse ==
  /\ AgentInit /\ StreamOff /\ ClaudeStreamOff /\ FactoryOff /\ RequestOff
  /\ AdapterOff /\ ApiOff /\ ResponseInit /\ TwoOff /\ ScreenOff /\ MainOff

NextResponse ==
  ClaudeReturn /\ UNCHANGED <<sessionVars, streamVars, claudeVars, factoryVars, requestVars, adapterVars, apiVars, twoVars, ioVars, mainVars>>

SpecResponse == InitResponse /\ [][NextResponse]_vars

\* two instances whose callers interleave in every way
InitTwo ==
  /\ AgentInit /\ StreamOff /\ ClaudeStreamOff /\ FactoryOff /\ RequestOff
  /\ AdapterOff /\ ApiOff /\ ResponseOff /\ TwoInit /\ ScreenOff /\ MainOff

NextTwo ==
  \E i \in Sessions :
    \/ TwoChat(i) /\ UNCHANGED <<sessionVars, streamVars, claudeVars, factoryVars, requestVars, adapterVars, apiVars, responseVars, ioVars, mainVars>>
    \/ \E content \in Replies : TwoResolve(i, content) /\ UNCHANGED <<sessionVars, streamVars, claudeVars, factoryVars, requestVars, adapterVars, apiVars, responseVars, ioVars, mainVars>>
    \/ TwoReject(i) /\ UNCHANGED <<sessionVars, streamVars, claudeVars, factoryVars, requestVars, adapterVars, apiVars, responseVars, ioVars, mainVars>>
    \/ TwoClear(i) /\ UNCHANGED <<sessionVars, streamVars, claudeVars, factoryVars, requestVars, adapterVars, apiVars, responseVars, ioVars, mainVars>>
    \/ TwoGetHistory(i) /\ UNCHANGED <<sessionVars, streamVars, claudeVars, factoryVars, requestVars, adapterVars, apiVars, responseVars, ioVars, mainVars>>

SpecTwo == InitTwo /\ [][NextTwo]_vars

\* the interactive session with its output and the end of its input
InitHandler ==
  /\ AgentInit /\ StreamOff /\ ClaudeStreamOff /\ FactoryOff /\ RequestOff
  /\ AdapterOff /\ ApiOff /\ ResponseOff /\ TwoOff /\ ScreenInit /\ MainOff

NextHandler ==
  \/ \E line \in InputLines : HandleLine(line) /\ UNCHANGED <<streamVars, claudeVars, factoryVars, requestVars, adapterVars, apiVars, responseVars, twoVars, mainVars>>
  \/ \E c \in inflight, content \in Replies :
       HandlerResolve(c, content) /\ UNCHANGED <<streamVars, claudeVars, factoryVars, requestVars, adapterVars, apiVars, responseVars, twoVars, mainVars>>
  \/ \E c \in inflight, error \in Errors :
       HandlerReject(c, error) /\ UNCHANGED <<streamVars, claudeVars, factoryVars, requestVars, adapterVars, apiVars, responseVars, twoVars, mainVars>>
  \/ Close /\ UNCHANGED <<streamVars, claudeVars, factoryVars, requestVars, adapterVars, apiVars, responseVars, twoVars, mainVars>>

SpecHandler == InitHandler /\ [][NextHandler]_vars

\* one start of the program
InitMain ==
  /\ AgentInit /\ StreamOff /\ ClaudeStreamOff /\ FactoryOff /\ RequestOff
  /\ AdapterOff /\ ApiOff /\ ResponseOff /\ TwoOff /\ ScreenOff /\ MainInit

NextMain ==
  \/ MainCheck /\ UNCHANGED <<sessionVars, streamVars, claudeVars, factoryVars, requestVars, adapterVars, apiVars, responseVars, twoVars, ioVars>>
  \/ MainConstruct /\ UNCHANGED <<sessionVars, streamVars, claudeVars, factoryVars, requestVars, adapterVars, apiVars, responseVars, twoVars, ioVars>>
  \/ MainSession /\ UNCHANGED <<sessionVars, streamVars, claudeVars, factoryVars, requestVars, adapterVars, apiVars, responseVars, twoVars, ioVars>>

SpecMain == InitMain /\ [][NextMain]_vars

(***************************************************************************)
(* Properties of the conversation session.                                 *)
(***************************************************************************)
\* C1: after n serialized chat calls that all succeed on a new or just
\* cleared agent, getHistory() has length 2n; element 2k-1 is the user
\* message with the k-th user text, element 2k the assistant message with
\* the content returned for the k-th call.
C1_HistoryAlternates ==
  (serial /\ inflight = {}) =>
    /\ Len(getHistory) = 2 * Len(okCalls)
    /\ \A k \in 1..Len(okCalls) :
         /\ getHistory[2 * k - 1] = [role |-> "user", content |-> okCalls[k].text]
         /\ getHistory[2 * k] = [role |-> "assistant", content |-> okCalls[k].content]

C1_Witness ==
  /\ serial
  /\ inflight = {}
  /\ Len(okCalls) = 2
  /\ okCalls[1].text # okCalls[2].text
  /\ Len(conversationHistory) = 4

\* C2: when provider.chat fails during a chat call that ran alone, the
\* history at the moment chat throws is the history before the call with the
\* user message appended and no assistant message, and chat throws the very
\* error the provider rejected with.
C2_FailureKeepsUserTurn ==
  [][ \A c \in inflight :
        ((\A d \in inflight' : d.id # c.id) /\ outcome'.kind = "thrown") =>
          /\ outcome'.id = c.id
          /\ outcome'.value = outcome'.provider
          /\ c.alone =>
               conversationHistory' =
                 c.before \o <<[role |-> "user", content |-> c.text]>> ]_vars

C2_Witness ==
  /\ outcome.kind = "thrown"
  /\ outcome.alone
  /\ outcome.id = nextId
  /\ inflight = {}
  /\ outcome.value = outcome.provider
  /\ Len(conversationHistory) = 3
  /\ conversationHistory[2].role = "assistant"
  /\ conversationHistory[3].role = "user"

\* C3: at any time at most one provider chat request is in flight per
\* NovelAgent, also when input lines arrive while a response is pending.
C3_AtMostOneInFlight == Cardinality(inflight) <= 1

(***************************************************************************)
(* Properties of DeepSeekProvider.streamChat.                              *)
(***************************************************************************)
RECURSIVE Fragments(_)
\* the fragments the for loop yields over the lines ls
Fragments(ls) ==
  IF ls = <<>> THEN <<>>
  ELSE LET r == LineStep(Head(ls)) IN
       (IF r.kind = "delta" /\ r.content # <<>> THEN <<r.content>> ELSE <<>>)
       \o Fragments(Tail(ls))

\* the fragments yielded when the whole body arrives in one read
OneRead(s) == Fragments(Popped(Split(s)))

\* C4: for every response body and every partition of it into reads, the
\* fragments yielded are those yielded when the body arrives in one read; a
\* delta line split across two reads yields its delta exactly once.
C4_ReadBoundaryInvariant == sPc = "done" => yielded = OneRead(stream)

C4_Witness ==
  /\ sPc = "done"
  /\ midCut
  /\ stream = <<"data:", "SP", "{a}", "NL">>
  /\ yielded = << <<"a">> >>

IsDoneLine(l) == Trim(l) = <<"data:", "SP", "[DONE]">>

RECURSIVE BeforeDone(_)
\* the lines in front of the first terminator line
BeforeDone(ls) ==
  IF ls = <<>> \/ IsDoneLine(Head(ls)) THEN <<>>
  ELSE <<Head(ls)>> \o BeforeDone(Tail(ls))

IsPrefix(a, b) == Len(a) <= Len(b) /\ a = SubSeq(b, 1, Len(a))

\* C5: the line data: [DONE] yields nothing, and no fragment is yielded for
\* a data line that comes after it.
C5_DoneTerminates ==
  IsPrefix(yielded, Fragments(BeforeDone(Popped(Split(stream)))))

\* a data line whose payload cannot be parsed or lacks the choices structure
IsMalformed(l) ==
  LET t == Trim(l) IN
  /\ StartsWithData(t)
  /\ ~IsDoneLine(l)
  /\ ParseDelta(SubSeq(t, 3, Len(t))).kind = "throws"

IsWellFormed(l) == ~IsMalformed(l)

\* the delta of a well-formed line, if it carries one
DeltaOf(l) ==
  LET t == Trim(l) IN
  IF t = <<"data:", "SP", "{a}">> THEN << <<"a">> >>
  ELSE IF t = <<"data:", "SP", "{b}">> THEN << <<"b">> >>
  ELSE <<>>

RECURSIVE Deltas(_)
Deltas(ls) == IF ls = <<>> THEN <<>> ELSE DeltaOf(Head(ls)) \o Deltas(Tail(ls))

\* C6: a data line with a malformed payload is skipped without aborting the
\* stream: the stream fails only when a read fails, and at its normal end the
\* deltas of the well-formed lines have been yielded, in order.
C6_MalformedSkipped ==
  /\ sPc = "failed" => readFailed
  /\ sPc = "done" => yielded = Deltas(SelectSeq(Popped(Split(stream)), IsWellFormed))

C6_Witness ==
  /\ sPc = "done"
  /\ stream = <<"data:", "SP", "{a}", "NL", "data:", "SP", "{bad", "NL",
                "data:", "SP", "{b}", "NL">>
  /\ yielded = << <<"a">>, <<"b">> >>

RECURSIVE Concat(_)
Concat(ss) == IF ss = <<>> THEN <<>> ELSE Head(ss) \o Concat(Tail(ss))

\* C7: at the normal end of a stream the concatenation of the fragments
\* equals the concatenation of the deltas of all well-formed data lines
\* received before the terminator, whether or not the last data line is
\* followed by a newline.
C7_ConcatEqualsDeltas ==
  sPc = "done" => Concat(yielded) = Concat(Deltas(BeforeDone(Split(stream))))

(***************************************************************************)
(* Properties of request building.                                         *)
(***************************************************************************)
NonSystemIdx(h) == { i \in DOMAIN h : h[i].role # "system" }
Kth(S, k) == CHOOSE i \in S : Cardinality({ j \in S : j < i }) = k - 1

\* C8: the messages ClaudeProvider sends, in chat and in streamChat, are the
\* non-system messages of the input in their order, unchanged; no message of
\* role system is sent, and the system instruction is in the system field.
C8_ClaudeExcludesSystem ==
  (request # None /\ request[1].backend = "claude") =>
    LET out == request[1].messages
        idx == NonSystemIdx(reqHistory) IN
    /\ Len(out) = Cardinality(idx)
    /\ \A k \in 1..Len(out) : out[k] = reqHistory[Kth(idx, k)]
    /\ \A k \in 1..Len(out) : out[k].role # "system"
    /\ request[1].system = reqSystem

C8_Witness ==
  /\ request # None
  /\ request[1].backend = "claude"
  /\ request[1].stream
  /\ Len(reqHistory) = 3
  /\ reqHistory[2].role = "system"
  /\ Len(request[1].messages) = 2
  /\ reqSystem # None

\* C9: the messages DeepSeekProvider sends are, when a system instruction is
\* given (the empty text included), one system message with that instruction
\* followed by the history unchanged, and the history alone otherwise.
C9_DeepSeekPrependsSystem ==
  (request # None /\ request[1].backend = "deepseek") =>
    request[1].messages =
      (IF reqSystem # None
       THEN <<[role |-> "system", content |-> reqSystem[1]]>> ELSE <<>>)
      \o reqHistory

(***************************************************************************)
(* Properties of the factory.                                              *)
(***************************************************************************)
\* C10: isSupported(c) holds exactly for claude and deepseek, createProvider
\* returns an instance exactly when isSupported(c), and fails with an
\* unsupported-provider error for every other identifier.
C10_FactoryClosedSet ==
  /\ isSupported(fType) <=> fType \in {"claude", "deepseek"}
  /\ fResult # None =>
       LET r == fResult[1] IN
       /\ r.supported <=> r.created.kind = "instance"
       /\ r.created.kind = "instance" => r.created.provider.kind = fType
       /\ ~r.supported =>
            /\ r.created.kind = "error"
            /\ r.created.error = <<"unsupported provider", fType>>

C10_Witness ==
  /\ fResult # None
  /\ fType = "made-up-backend"
  /\ ~fResult[1].supported
  /\ fResult[1].created.kind = "error"

(***************************************************************************)
(* Further properties of the conversation session.                         *)
(***************************************************************************)
InFlightIds == { c.id : c \in inflight }

\* C13: clearHistory() followed by getHistory() gives the empty sequence in
\* every state; a second clearHistory() in a row changes nothing; and
\* clearHistory() issues no provider request.
C13_ClearEmptiesIdempotent ==
  [][ lastOp' = "clear" =>
        /\ getHistory' = <<>>
        /\ nextId' = nextId
        /\ InFlightIds' = InFlightIds
        /\ lastOp = "clear" => agentVars' = agentVars ]_vars

C13_Witness ==
  /\ lastOp = "clear"
  /\ getHistory = <<>>
  /\ inflight # {}
  /\ nextId = 2
  /\ outcome.kind = "returned"

\* C15: every change of the history is the append of exactly one message at
\* its end or its replacement by the empty sequence; no message of the
\* history is changed, inserted, removed or moved.
C15_AppendOnly ==
  [][ \/ conversationHistory' = conversationHistory
      \/ conversationHistory' = <<>>
      \/ /\ Len(conversationHistory') = Len(conversationHistory) + 1
         /\ SubSeq(conversationHistory', 1, Len(conversationHistory)) = conversationHistory ]_vars

C15_Witness ==
  /\ Len(conversationHistory) = 3
  /\ conversationHistory[1].role = "user"
  /\ conversationHistory[2].role = "user"
  /\ conversationHistory[3].role = "assistant"
  /\ Cardinality(inflight) = 1

\* C16: every chat call hands provider.chat the full history of call time,
\* whose last element is the user message just appended, and the fixed system
\* instruction; the system instruction is never a message of the history.
C16_SendsFullHistory ==
  /\ \A c \in inflight :
       /\ c.sent.messages = c.before \o <<[role |-> "user", content |-> c.text]>>
       /\ c.sent.system = systemPrompt
       /\ \A i \in DOMAIN c.sent.messages : c.sent.messages[i].role # "system"
  /\ \A i \in DOMAIN conversationHistory :
       /\ conversationHistory[i].role # "system"
       /\ conversationHistory[i].content # systemPrompt

C16_Witness ==
  \E c \in inflight :
    /\ Len(c.before) = 2
    /\ Len(c.sent.messages) = 3
    /\ c.sent.messages[3] = [role |-> "user", content |-> c.text]
    /\ c.sent.system = systemPrompt

(***************************************************************************)
(* Properties of the provider configuration.                               *)
(***************************************************************************)
\* the value getConfig should report for an optional field
Supplied(x, d) == IF x = None THEN d ELSE x[1]

\* C19: getConfig() of the constructed adapter reports the supplied model,
\* max output tokens and temperature whenever each is supplied, the value 0
\* included, and the default model, 4096 and 0.7 exactly when it is omitted.
C19_ConfigReportsSupplied ==
  (fResult # None /\ fResult[1].created.kind = "instance") =>
    LET cfg == getConfig(fResult[1].created.provider) IN
    /\ cfg.model = Supplied(fConfig.model, getDefaultModel(fType))
    /\ cfg.maxTokens = Supplied(fConfig.maxTokens, 4096)
    /\ cfg.temperature = Supplied(fConfig.temperature, 7)

(***************************************************************************)
(* Properties of a stream that fails.                                      *)
(***************************************************************************)
\* C17: when the connection fails in DeepSeekProvider.streamChat or in
\* ClaudeProvider.streamChat after k fragments, the consumer has exactly
\* those k fragments and then gets an error: the failure adds and removes no
\* fragment, and the sequence never ends normally after it.
C17_FailureAborts ==
  [][ /\ readFailed' => (sPc' = "failed" /\ yielded' = yielded)
      /\ cFailed' => (cPc' = "failed" /\ cYielded' = cYielded) ]_vars

C17_Witness ==
  /\ readFailed
  /\ sPc = "failed"
  /\ pos < Len(stream)
  /\ yielded = << <<"a">>, <<"b">> >>


(***************************************************************************)
(* Properties of one adapter call.                                         *)
(***************************************************************************)
Tokens(message) == { message[i] : i \in DOMAIN message }

\* the last call was operation op and has ended
Ended(op) == aCall.op = op /\ aPc = "idle" /\ aResult.kind # "none"

\* C11: when the DeepSeek endpoint answers with a non-success status, chat and
\* streamChat end with an error and deliver no response and no fragment; the
\* message names the backend and carries the status, and a body that cannot
\* be parsed is reported as the empty detail.
C11_NonSuccessIsError ==
  ( /\ aKind = "deepseek"
    /\ Ended("chat") \/ Ended("streamChat")
    /\ aResp.net = "up"
    /\ aResp.status # "200" )
  => /\ aResult.kind = "error"
     /\ aResult.content = <<>>
     /\ aResult.fragments = <<>>
     /\ Head(aResult.message) \in {"DeepSeek API error:", "DeepSeek stream error:"}
     /\ aResp.status \in Tokens(aResult.message)
     /\ aResp.body \in {"garbage", "none"} => "{}" \in Tokens(aResult.message)

C11_Witness ==
  /\ aKind = "deepseek"
  /\ Ended("streamChat")
  /\ aResp.status = "401"
  /\ aResp.body = "garbage"
  /\ aResult.message =
       <<"DeepSeek stream error:", "DeepSeek API error:", "401", "-", "{}">>

\* C12: validateApiKey always ends with a boolean, which is true exactly when
\* the remote call succeeded; a network or authentication failure gives false.
C12_ValidateReturnsBoolean ==
  Ended("validateApiKey")
  => /\ aResult.kind = "value"
     /\ aResult.message = <<>>
     /\ aResult.valid = (aResp.net = "up" /\ aResp.status = "200")

C12_Witness ==
  /\ aKind = "deepseek"
  /\ Ended("validateApiKey")
  /\ aResp.net = "down"
  /\ aResult = Bool(FALSE)

\* C18: an adapter that inherits streamChat makes one chat call; when chat
\* succeeds the sequence is the one fragment response.content, and when chat
\* fails the sequence has no fragment and fails with the error of chat.
C18_DefaultStreamOneFragment ==
  (aKind = "base" /\ Ended("streamChat"))
  => /\ aCall.chats = 1
     /\ IF BaseChatResult(aResp).kind = "value"
        THEN /\ aResult.kind = "ended"
             /\ aResult.fragments = <<aResp.content>>
        ELSE /\ aResult.kind = "error"
             /\ aResult.fragments = <<>>
             /\ aResult.message = BaseChatResult(aResp).message

C18_Witness ==
  /\ aKind = "base"
  /\ Ended("streamChat")
  /\ aResult.kind = "error"
  /\ aResult.message = <<"backend error:", "500", "{error}">>

\* C20: a call of chat, of validateApiKey, or of streamChat once started, has
\* issued exactly one remote request, whether it is pending, has succeeded or
\* has failed; NovelAgent.chat has one provider call pending until it has
\* completed and none after.
C20_OneRequestPerCall ==
  /\ (aCall.op # "none" /\ aPc # "created") => aCall.requests = 1
  /\ aCall.caller = "agent" =>
       /\ aCall.op = "chat"
       /\ Cardinality(inflight) = (IF aPc \in {"remote", "answered"} THEN 1 ELSE 0)

C20_Witness ==
  /\ aCall.caller = "agent"
  /\ aPc = "idle"
  /\ aResult.kind = "error"
  /\ outcome.kind = "thrown"
  /\ aDone = 2


(***************************************************************************)
(* Properties of the history snapshot.                                     *)
(***************************************************************************)
\* C14: a change the caller makes to the array returned by getHistory leaves
\* the session's history, and so the next getHistory, as before; every chat
\* sends the history that chat and clearHistory alone have built, followed by
\* the new user message; and chat, its completion and clearHistory leave the
\* caller's array as it was.
C14_SnapshotIsDefensive ==
  [][ /\ lastOp' = "mutate" => getHistory' = getHistory
      /\ conversationHistory' = shadow'
      /\ \A c \in inflight' : c.sent.messages = c.before \o <<Msg("user", c.text)>>
      /\ lastOp' = "chat" => \A c \in inflight' : c.before = shadow
      /\ lastOp' \in {"chat", "other", "clear"} => snapshot'.items = snapshot.items ]_vars

C14_Witness ==
  /\ lastOp = "chat"
  /\ Len(snapshot.items) = 2
  /\ snapshot.items[1] = Foreign
  /\ Len(conversationHistory) = 3
  /\ conversationHistory[1] = Msg("user", <<"m1">>)
  /\ \E c \in inflight : c.sent.messages = conversationHistory


(***************************************************************************)
(* Properties of the commands of the interactive session.                  *)
(***************************************************************************)
QuitLines == { <<"/quit">>, <<"/exit">> }
ClearLines == { <<"/clear">>, <<"SP", "/clear">> }
IdleLines == { <<>>, <<"SP">>, <<"/history">>, <<"/info">> }

\* the text a line that is no command is sent as
SentAs(line) == IF line = <<"m2", "SP">> THEN <<"m2">> ELSE line

\* this step issues no provider request
NoRequest == nextId' = nextId /\ InFlightIds' = InFlightIds

\* C25: in every step of the line handler, /clear empties the history;
\* /history, /info and a blank line leave it unchanged; /quit and /exit leave
\* it unchanged too; none of these issues a provider request.  Every other
\* line appends one user message and issues one request, and no other step
\* of the session issues a request.
C25_CommandsHaveDocumentedEffect ==
  [][ /\ \A line \in InputLines :
           Line(line) =>
             IF line \in ClearLines
             THEN getHistory' = <<>> /\ NoRequest
             ELSE IF line \in IdleLines \cup QuitLines
             THEN getHistory' = getHistory /\ NoRequest
             ELSE /\ getHistory' = Append(getHistory, Msg("user", SentAs(line)))
                  /\ nextId' = nextId + 1
                  /\ InFlightIds' = InFlightIds \cup {nextId'}
      /\ nextId' # nextId =>
           \E line \in InputLines \ (ClearLines \cup IdleLines \cup QuitLines) :
             Line(line) ]_vars

C25_Witness ==
  /\ exited
  /\ nextId = 2
  /\ Len(conversationHistory) = 3
  /\ Cardinality(inflight) = 1

\* C30: in every state of the interactive session every assistant message of
\* the history is immediately preceded by a user message.
C30_AssistantFollowsUser ==
  \A i \in 1..Len(conversationHistory) :
    conversationHistory[i].role = "assistant" =>
      i > 1 /\ conversationHistory[i - 1].role = "user"


(***************************************************************************)
(* Properties of retrying after a failure.                                 *)
(***************************************************************************)
\* the last n elements of a sequence
Last(h, n) == SubSeq(h, Len(h) - n + 1, Len(h))

\* the user messages of a sequence of texts
Users(texts) == [i \in 1..Len(texts) |-> Msg("user", texts[i])]

\* C29: when a chat call succeeds after k calls in a row have failed, with
\* no clearHistory in between, its request ends with the k failed user turns
\* followed by the new one, and the history afterwards ends with these k+1
\* user messages followed by one assistant message; while no call has
\* succeeded and the history was not cleared, the failed turns stay at the
\* end of the history.
C29_FailedTurnsAreResent ==
  [][ /\ \A c \in inflight :
           (c.alone /\ inflight' = {} /\ outcome'.kind = "returned" /\ outcome'.id = c.id) =>
             LET turns == Users(Append(failed, c.text)) IN
               /\ Len(c.sent.messages) >= Len(turns)
               /\ Last(c.sent.messages, Len(turns)) = turns
               /\ Len(getHistory') >= Len(turns) + 1
               /\ Last(getHistory', Len(turns) + 1) =
                    Append(turns, Msg("assistant", outcome'.value))
      /\ inflight' = {} =>
           /\ Len(getHistory') >= Len(failed')
           /\ Last(getHistory', Len(failed')) = Users(failed') ]_vars

C29_Witness ==
  /\ outcome.kind = "returned"
  /\ inflight = {}
  /\ Len(conversationHistory) = 4
  /\ \A i \in 1..3 : conversationHistory[i].role = "user"
  /\ conversationHistory[4].role = "assistant"


(***************************************************************************)
(* Properties of a stream and its consumer.                                *)
(***************************************************************************)
\* the fragments of the complete lines among the first n tokens of the body
Decoded(n) == Fragments(Popped(Split(SubSeq(stream, 1, n))))

\* the texts of the text deltas among events
ClaudeTexts(events) ==
  LET deltas == SelectSeq(events, IsTextDelta) IN
  [i \in 1..Len(deltas) |-> deltas[i].delta.text]

\* C21: DeepSeekProvider.streamChat takes more of the response body only at
\* reader.read(), never while it is suspended at a yield; whenever it is at
\* reader.read() no decoded line is left to visit and every fragment of the
\* lines received so far has been handed to the consumer, in order; and
\* the consumer never holds a fragment that was not decoded.
C21_NoReadAhead ==
  /\ [][pos' > pos => sPc = "read"]_vars
  /\ [](sPc = "read" => (lines = <<>> /\ yielded = Decoded(pos)))
  /\ []IsPrefix(yielded, Decoded(pos))

C21_Witness ==
  /\ sPc = "read"
  /\ 0 < pos /\ pos < Len(stream)
  /\ buffer # <<>>
  /\ yielded = << <<"a">>, <<"b">> >>

\* C22: a streamChat call made after a stream was abandoned at a fragment
\* starts as the first call on an adapter starts, with an empty buffer, no
\* line left to visit and no fragment, and yields what its own body yields;
\* abandoning and calling again change neither the session nor the
\* configuration of a provider.
C22_AbandonLeavesNothing ==
  [][ /\ sCalls' > sCalls =>
           (pos' = 0 /\ buffer' = <<>> /\ lines' = <<>> /\ yielded' = <<>> /\ sPc' = "read")
      /\ (sCalls' = MaxStreams /\ sPc' = "done") => yielded' = OneRead(stream')
      /\ cCalls' > cCalls => (cPos' = 0 /\ cYielded' = <<>> /\ cPc' = "create")
      /\ (cCalls' = MaxStreams /\ cPc' = "done") => cYielded' = ClaudeTexts(cEvents')
      /\ (sPc' = "abandoned" \/ cPc' = "abandoned" \/ sCalls' > sCalls \/ cCalls' > cCalls) =>
           UNCHANGED <<sessionVars, factoryVars, adapterVars>> ]_vars

C22_Witness ==
  /\ sCalls = MaxStreams
  /\ left.buffer
  /\ left.lines
  /\ left.fragments = 1
  /\ sPc = "done"
  /\ yielded = << <<"b">> >>


(***************************************************************************)
(* Properties of a backend that stalls.                                    *)
(***************************************************************************)
\* C23: every adapter call whose request is pending eventually ends, with a
\* result or with an error, also when the backend never answers; and so
\* NovelAgent.chat eventually returns or fails.
C23_EveryCallCompletes == (aPc \in {"remote", "answered"}) ~> (aPc = "idle")


(***************************************************************************)
(* Properties of the provider metadata.                                    *)
(***************************************************************************)
\* C28: getProviderInfo has an entry exactly for the identifiers of
\* getSupportedProviders; the default model of the entry is the one
\* ProviderFactory.getDefaultModel gives and the one getConfig reports for an
\* adapter created with no model configured, and its name is the provider
\* name getConfig reports.
C28_MetadataConsistent ==
  /\ \A i \in DOMAIN getSupportedProviders :
       getSupportedProviders[i] \in DOMAIN getProviderInfo
  /\ fMeta # None =>
       /\ fMeta[1].info # None <=> isSupported(fType)
       /\ isSupported(fType) =>
            /\ fMeta[1].default = Some(fMeta[1].info[1].defaultModel)
            /\ (fResult # None /\ fResult[1].created.kind = "instance") =>
                 LET cfg == getConfig(fResult[1].created.provider) IN
                 /\ cfg.provider = fMeta[1].info[1].name
                 /\ fConfig.model = None => cfg.model = fMeta[1].info[1].defaultModel

C28_Witness ==
  /\ fMeta # None
  /\ fResult # None
  /\ fType = "deepseek"
  /\ fConfig.model = None
  /\ fMeta[1].info # None
  /\ getConfig(fResult[1].created.provider).model = <<"deepseek-chat">>


(***************************************************************************)
(* Properties of the configuration of a constructed adapter.               *)
(***************************************************************************)
\* C26: whatever calls of chat, streamChat, validateApiKey and getConfig have
\* been made on an adapter and however they ended, getConfig() returns the
\* provider name, model, max tokens and temperature it returned right after
\* construction; the model named in a response is never the one it returns.
C26_ConfigImmutable ==
  /\ getConfig(aProvider) = aBuilt
  /\ aSeen # None =>
       /\ aSeen[1] = aBuilt
       /\ aSeen[1].model # ServedModel

C26_Witness ==
  /\ aSeen # None
  /\ aKind = "deepseek"
  /\ aDone = 2
  /\ Ended("chat")
  /\ aResult.model = ServedModel
  /\ aSeen[1].model = <<"deepseek-chat">>


(***************************************************************************)
(* Properties of the response ClaudeProvider.chat builds.                  *)
(***************************************************************************)
RECURSIVE TextsJoined(_, _)
\* the texts of the text blocks in order, a newline between two of them
TextsJoined(blocks, first) ==
  IF blocks = <<>> THEN <<>>
  ELSE IF Head(blocks).type = "text"
  THEN (IF first THEN <<>> ELSE <<"NL">>) \o Head(blocks).text
       \o TextsJoined(Tail(blocks), FALSE)
  ELSE TextsJoined(Tail(blocks), first)

\* C27: the content ClaudeProvider.chat returns is the texts of the blocks of
\* type text, in their order, with one newline between consecutive ones and
\* nothing for any other block; the usage it returns has the input and the
\* output count of the message and their sum as total.
C27_TextBlocksJoined ==
  rResponse # None =>
    /\ rResponse[1].content = TextsJoined(rBlocks, TRUE)
    /\ rResponse[1].usage.promptTokens = rUsage.input_tokens
    /\ rResponse[1].usage.completionTokens = rUsage.output_tokens
    /\ rResponse[1].usage.totalTokens = rUsage.input_tokens + rUsage.output_tokens

C27_Witness ==
  /\ rResponse # None
  /\ rBlocks = << [type |-> "text", text |-> <<"a">>],
                  [type |-> "tool_use", text |-> <<"{input}">>],
                  [type |-> "text", text |-> <<"b">>] >>
  /\ rResponse[1].content = <<"a", "NL", "b">>
  /\ rResponse[1].usage.totalTokens = 12


(***************************************************************************)
(* Properties of two instances.                                            *)
(***************************************************************************)
\* C24: under every interleaving of chat, clearHistory and getHistory calls
\* on two NovelAgent instances, the history of each instance is the one its
\* own calls alone have built, getHistory returns that history, and the
\* configuration of each provider never changes.
C24_InstancesShareNothing ==
  /\ [](\A i \in Sessions : tHist[i] = tSolo[i])
  /\ [][ /\ \A i \in Sessions : getConfig(tProv'[i]) = getConfig(tProv[i])
         /\ tSeen' # tSeen => tSeen'.items = tSolo[tSeen'.session] ]_vars

C24_Witness ==
  /\ tCount[1] = 1
  /\ tHist[1] = <<>>
  /\ tPending[1] = None
  /\ Len(tHist[2]) = 3
  /\ tPending[2] # None
  /\ tSeen.session = 2


(***************************************************************************)
(* Properties of ClaudeProvider.streamChat.                                *)
(***************************************************************************)
RECURSIVE TextsOf(_)
\* the texts of the content-block deltas of text type among events, in order
TextsOf(events) ==
  IF events = <<>> THEN <<>>
  ELSE LET e == Head(events) IN
       (IF e.type = "content_block_delta" /\ e.delta.type = "text_delta"
        THEN <<e.delta.text>> ELSE <<>>) \o TextsOf(Tail(events))

\* C31: at every point of ClaudeProvider.streamChat, also after it has ended
\* or failed, the fragments yielded are the raw texts of the text deltas
\* among the events received so far, one fragment for each, in the order of
\* the events; no other event yields anything.
C31_ClaudeYieldsTextDeltas ==
  /\ cYielded = TextsOf(SubSeq(cEvents, 1, cPos))
  /\ cPc = "done" => cPos = Len(cEvents)

C31_Witness ==
  /\ cPc = "done"
  /\ cEvents = << Event("content_block_delta", "text_delta", <<"a">>),
                  Event("content_block_delta", "input_json_delta", <<"{">>),
                  Event("content_block_delta", "text_delta", <<"b">>) >>
  /\ cYielded = << <<"a">>, <<"b">> >>


(***************************************************************************)
(* Properties of the interactive session after a failure.                  *)
(***************************************************************************)
\* the step of the session that reads a line that is no command
TypeMessage ==
  HandleLine(<<"m1">>) /\ UNCHANGED <<streamVars, claudeVars, factoryVars, requestVars, adapterVars, apiVars, responseVars, twoVars, mainVars>>

\* C32: when chat fails in the line handler the session reports the error,
\* shows the prompt again and does not exit; as long as the session has not
\* exited a non-command line is processed and issues a new request; and the
\* session exits only in the step of /quit, of /exit or of the end of input.
C32_FailureKeepsSessionOpen ==
  /\ [][ /\ (outcome' # outcome /\ outcome'.kind = "thrown") =>
              (~exited' /\ screen' = <<"error", "prompt">>)
         /\ (exited' /\ ~exited) =>
              \/ \E line \in InputLines :
                   Trim(line) \in QuitLines /\ HandleLine(line)
              \/ Close ]_vars
  /\ []((~exited /\ nextId < MaxChats) => ENABLED TypeMessage)

C32_Witness ==
  /\ outcome.kind = "thrown"
  /\ ~exited
  /\ \E c \in inflight : c.id > outcome.id
  /\ screen = <<"thinking">>


(***************************************************************************)
(* Properties of start-up.                                                 *)
(***************************************************************************)
\* the provider MODEL_PROVIDER selects, claude when it is unset or empty
Selected ==
  IF env.MODEL_PROVIDER \in {None, Some("")} THEN "claude"
  ELSE env.MODEL_PROVIDER[1]

IsSet(x) == x # None /\ x # Some(<<>>)

\* the key of the selected provider
Specific ==
  IF Selected = "claude" THEN env.ANTHROPIC_API_KEY
  ELSE IF Selected = "deepseek" THEN env.DEEPSEEK_API_KEY
  ELSE None

Invalid ==
  \/ Selected \notin {"claude", "deepseek"}
  \/ ~IsSet(Specific) /\ ~IsSet(env.API_KEY)

\* C33: once main has validated the environment, an unsupported provider or
\* the absence of both the provider's key and API_KEY has ended the process
\* with code 1, no agent constructed and no session started; otherwise the
\* process has not exited, and the agent, once constructed, has the selected
\* provider and the provider's own key if set, API_KEY if not; the session
\* starts only with a constructed agent.
C33_NoSessionWithInvalidConfiguration ==
  /\ (mPc \notin {"off", "start"}) =>
       IF Invalid
       THEN mPc = "exit" /\ mCode = Some(1) /\ mAgent = None
       ELSE mPc \in {"checked", "constructed", "session"} /\ mCode = None
  /\ (mPc \in {"constructed", "session"}) <=> (mAgent # None)
  /\ mAgent # None =>
       /\ mAgent[1].kind = Selected
       /\ mAgent[1].apiKey =
            IF IsSet(Specific) THEN Specific[1] ELSE env.API_KEY[1]

C33_Witness ==
  /\ mPc = "session"
  /\ Selected = "deepseek"
  /\ IsSet(env.DEEPSEEK_API_KEY) /\ IsSet(env.API_KEY)
  /\ mAgent # None
  /\ mAgent[1].apiKey = <<"kd">>

=============================================================================
